---------------------------- MODULE Spec2Model ----------------------------
(***************************************************************************)
(* A model of the batch pipeline of paper-econometria-avanzada:            *)
(*   scripts/secop.py          procurement concentration per entity        *)
(*   scripts/outsiders.py      outsider-vs-establishment comparison        *)
(*   scripts/final_database.py cross-domain merge and its text normalizer  *)
(* Every script is a straight-line batch program; each of its sections is  *)
(* one action and pc names the section that runs next.  Text is modelled   *)
(* as a sequence of characters, tables as sequences or sets of records,    *)
(* floating-point quantities as exact reduced fractions <<n, d>> with      *)
(* <<0, 0>> for NaN and <<1, 0>> / <<-1, 0>> for +inf / -inf.              *)
(***************************************************************************)
EXTENDS Integers, Sequences, FiniteSets, TLC

VARIABLES
    pc,                 \* the section of the running script that runs next
    modalidad,          \* secop.py is_simplificada: the argument m
    simplificada,       \* secop.py is_simplificada: the value returned
    files,              \* secop.py: rows of the two intermediate files, concatenated
    df,                 \* secop.py: df after the cleaning block
    df_main,            \* secop.py: df_main after the >= 2 processes filter
    contract_counts_main, \* secop.py: distinct processes per entity, 2020-2023
    m_hhi,              \* secop.py: supplier rows with v_i, V and share s_i
    res_hhi,            \* secop.py: HHI and HHI_10000 per entity
    res_conc,           \* secop.py: simplified-procedure shares per entity
    final_df,           \* secop.py: the procurement output table
    g_prov,             \* secop.py calculate_metrics_custom_period: supplier rows
    ctrl_combined,      \* secop.py: the control-window table
    df_mun,             \* secop.py: rows of municipios_colombia.csv
    mun_to_dept,        \* secop.py: the lookup table, in its iteration order
    entity_info,        \* secop.py: the descriptive row of each entity
    updates,            \* secop.py: the recoveries found, (idx, mun, dept)
    cand_file,          \* outsiders.py: rows of the electoral input file
    cand_df,            \* outsiders.py: df with outsider and normalized names
    filtered_df,        \* outsiders.py: the rows of mixed municipalities
    best_candidates,    \* outsiders.py: the top row of each class and group
    election_rows,      \* outsiders.py: final_df, the table written
    text,               \* final_database.py normalize_text: the argument
    norm_once,          \* final_database.py: normalize_text(text)
    norm_twice,         \* final_database.py: normalize_text(normalize_text(text))
    secop_path,         \* final_database.py: the procurement table on disk, or Absent
    outsiders_path,     \* final_database.py: the electoral table on disk, or Absent
    df_secop,           \* final_database.py: the procurement table read
    df_outsiders,       \* final_database.py: the electoral table read
    merged,             \* final_database.py: the inner join of the two tables
    unmatched_cities,   \* final_database.py: the unmatched pairs, deduplicated
    final_file,         \* final_database.py: OUTPUT_FILE on disk, or Absent
    unmatched_file,     \* final_database.py: UNMATCHED_FILE on disk, or Absent
    diagnostic,         \* final_database.py: the message the run ends with
    raw,                \* process_secop1/2.py: rows of the raw file of one source
    has_adjudicado,     \* process_secop2.py: "adjudicado" in df.columns
    intermediate,       \* process_secop1/2.py: rows of the intermediate file
    gated               \* secop.py: the intermediate rows is_awarded keeps

secopVars == <<files, df, df_main, contract_counts_main, m_hhi, res_hhi,
               res_conc, final_df, g_prov, ctrl_combined>>

srcVars == <<raw, has_adjudicado, intermediate, gated>>

simpVars == <<modalidad, simplificada, srcVars>>

recVars == <<df_mun, mun_to_dept, entity_info, updates>>

outVars == <<cand_file, cand_df, filtered_df, best_candidates, election_rows>>

finVars == <<secop_path, outsiders_path, df_secop, df_outsiders, merged,
             unmatched_cities, final_file, unmatched_file, diagnostic>>

normVars == <<text, norm_once, norm_twice, finVars>>

vars == <<pc, simpVars, secopVars, recVars, outVars, normVars>>

nonSecopVars == <<simpVars, recVars, outVars, normVars>>

(***************************************************************************)
(* Absent values.                                                          *)
(***************************************************************************)
\* a null / NaN cell of a column whose values are whole strings
NaN == "NaN"

\* a null / NaN cell of a column whose values are spelled character by character
NoText == <<"<NaN>">>

\* the value a variable holds while its script is not the one running
Idle == "idle"

SecopIdle ==
    /\ files = Idle /\ df = Idle /\ df_main = Idle /\ contract_counts_main = Idle
    /\ m_hhi = Idle /\ res_hhi = Idle /\ res_conc = Idle /\ final_df = Idle
    /\ g_prov = Idle /\ ctrl_combined = Idle

SrcIdle == raw = Idle /\ has_adjudicado = Idle /\ intermediate = Idle /\ gated = Idle

SimpIdle == modalidad = Idle /\ simplificada = Idle /\ SrcIdle

RecIdle == df_mun = Idle /\ mun_to_dept = Idle /\ entity_info = Idle /\ updates = Idle

OutIdle ==
    /\ cand_file = Idle /\ cand_df = Idle /\ filtered_df = Idle
    /\ best_candidates = Idle /\ election_rows = Idle

TextIdle == text = Idle /\ norm_once = Idle /\ norm_twice = Idle

FinIdle ==
    /\ secop_path = Idle /\ outsiders_path = Idle /\ df_secop = Idle
    /\ df_outsiders = Idle /\ merged = Idle /\ unmatched_cities = Idle
    /\ final_file = Idle /\ unmatched_file = Idle /\ diagnostic = Idle

NormIdle == TextIdle /\ FinIdle

(***************************************************************************)
(* Exact fractions standing for the floats of the scripts.                 *)
(***************************************************************************)
Abs(x) == IF x < 0 THEN -x ELSE x

RECURSIVE Gcd(_, _)
Gcd(a, b) == IF b = 0 THEN a ELSE Gcd(b, a % b)

RatNaN == <<0, 0>>

IsNaN(r) == r = RatNaN

\* n / d as a float division: x/0 is +-inf, 0/0 is NaN
Rat(n, d) ==
    IF d = 0 THEN (IF n = 0 THEN RatNaN ELSE IF n > 0 THEN <<1, 0>> ELSE <<-1, 0>>)
    ELSE LET g == Gcd(Abs(n), Abs(d))
             s == IF d < 0 THEN -1 ELSE 1
         IN  <<(s * n) \div g, (s * d) \div g>>

RatOfInt(n) == <<n, 1>>

RatDiv(a, b) ==
    IF IsNaN(a) \/ IsNaN(b) THEN RatNaN
    ELSE Rat(a[1] * b[2], a[2] * b[1])

RatMul(a, b) ==
    IF IsNaN(a) \/ IsNaN(b) THEN RatNaN
    ELSE Rat(a[1] * b[1], a[2] * b[2])

RatAdd(a, b) ==
    IF IsNaN(a) \/ IsNaN(b) THEN RatNaN
    ELSE IF a[2] = 0 \/ b[2] = 0
         THEN (IF a[2] = 0 /\ b[2] = 0 /\ a[1] # b[1] THEN RatNaN
               ELSE IF a[2] = 0 THEN a ELSE b)
         ELSE Rat(a[1] * b[2] + b[1] * a[2], a[2] * b[2])

RatLeq(a, b) == a[1] * b[2] <= b[1] * a[2]

\* numpy round(0): to the nearest integer, halves to the even neighbour
RatRound(a) ==
    IF a[2] = 0 THEN a
    ELSE LET q == a[1] \div a[2]
             r == a[1] % a[2]
         IN  IF 2 * r < a[2] THEN RatOfInt(q)
             ELSE IF 2 * r > a[2] THEN RatOfInt(q + 1)
             ELSE IF q % 2 = 0 THEN RatOfInt(q) ELSE RatOfInt(q + 1)

(***************************************************************************)
(* Text: a string is the sequence of its characters.                       *)
(***************************************************************************)
\* Chars-begin
Chars(s) ==
    CASE s = "enajenacion" -> <<"e","n","a","j","e","n","a","c","i","o","n">>
      [] s = "subasta de prueba" -> <<"s","u","b","a","s","t","a"," ","d","e"," ","p","r","u","e","b","a">>
      [] s = "solicitud de informacion" -> <<"s","o","l","i","c","i","t","u","d"," ","d","e"," ","i","n","f","o","r","m","a","c","i","o","n">>
      [] s = "contratacion directa" -> <<"c","o","n","t","r","a","t","a","c","i","o","n"," ","d","i","r","e","c","t","a">>
      [] s = "minima cuantia" -> <<"m","i","n","i","m","a"," ","c","u","a","n","t","i","a">>
      [] s = "seleccion abreviada" -> <<"s","e","l","e","c","c","i","o","n"," ","a","b","r","e","v","i","a","d","a">>
      [] s = "menor cuantia" -> <<"m","e","n","o","r"," ","c","u","a","n","t","i","a">>
      [] s = "subasta inversa" -> <<"s","u","b","a","s","t","a"," ","i","n","v","e","r","s","a">>
      [] s = "regimen especial" -> <<"r","e","g","i","m","e","n"," ","e","s","p","e","c","i","a","l">>
      [] s = "enajenacion por " -> <<"e","n","a","j","e","n","a","c","i","o","n"," ","p","o","r"," ">>
      [] s = "seleccion abreviada " -> <<"s","e","l","e","c","c","i","o","n"," ","a","b","r","e","v","i","a","d","a"," ">>
      [] s = "Subasta Inversa " -> <<"S","u","b","a","s","t","a"," ","I","n","v","e","r","s","a"," ">>
      [] s = "Contratación Directa " -> <<"C","o","n","t","r","a","t","a","c","i","ó","n"," ","D","i","r","e","c","t","a"," ">>
      [] s = "Mínima Cuantía " -> <<"M","í","n","i","m","a"," ","C","u","a","n","t","í","a"," ">>
      [] s = "Régimen Especial " -> <<"R","é","g","i","m","e","n"," ","E","s","p","e","c","i","a","l"," ">>
      [] s = "subasta de prueba " -> <<"s","u","b","a","s","t","a"," ","d","e"," ","p","r","u","e","b","a"," ">>
      [] s = "Solicitud de Información " -> <<"S","o","l","i","c","i","t","u","d"," ","d","e"," ","I","n","f","o","r","m","a","c","i","ó","n"," ">>
      [] s = "Licitación Pública " -> <<"L","i","c","i","t","a","c","i","ó","n"," ","P","ú","b","l","i","c","a"," ">>
      [] s = " " -> <<" ">>
      [] s = "si" -> <<"s","i">>
      [] s = "sí" -> <<"s","í">>
      [] s = "true" -> <<"t","r","u","e">>
      [] s = "1" -> <<"1">>
      [] s = "Si" -> <<"S","i">>
      [] s = "No" -> <<"N","o">>
      [] s = "900123456" -> <<"9","0","0","1","2","3","4","5","6">>
      [] s = "800.100.200" -> <<"8","0","0",".","1","0","0",".","2","0","0">>
      [] s = "P1" -> <<"P","1">>
      [] s = "P2" -> <<"P","2">>
      [] s = "SIN NIT" -> <<"S","I","N"," ","N","I","T">>
      [] s = "AGRUPACION POLITICA EN MARCHA" -> <<"A","G","R","U","P","A","C","I","O","N"," ","P","O","L","I","T","I","C","A"," ","E","N"," ","M","A","R","C","H","A">>
      [] s = "INDEPENDIENTES" -> <<"I","N","D","E","P","E","N","D","I","E","N","T","E","S">>
      [] s = "MOVIMIENTO SALVACION NACIONAL" -> <<"M","O","V","I","M","I","E","N","T","O"," ","S","A","L","V","A","C","I","O","N"," ","N","A","C","I","O","N","A","L">>
      [] s = "MOVIMIENTO ALIANZA DEMOCRATICA AMPLIA" -> <<"M","O","V","I","M","I","E","N","T","O"," ","A","L","I","A","N","Z","A"," ","D","E","M","O","C","R","A","T","I","C","A"," ","A","M","P","L","I","A">>
      [] s = "MOVIMIENTO ALTERNATIVO INDIGENA Y SOCIAL MAIS" -> <<"M","O","V","I","M","I","E","N","T","O"," ","A","L","T","E","R","N","A","T","I","V","O"," ","I","N","D","I","G","E","N","A"," ","Y"," ","S","O","C","I","A","L"," ","M","A","I","S">>
      [] s = "MOVIMIENTO AUTORIDADES INDIGENAS DE COLOMBIA AICO" -> <<"M","O","V","I","M","I","E","N","T","O"," ","A","U","T","O","R","I","D","A","D","E","S"," ","I","N","D","I","G","E","N","A","S"," ","D","E"," ","C","O","L","O","M","B","I","A"," ","A","I","C","O">>
      [] s = "MOVIMIENTO ESPERANZA PAZ Y LIBERTAD" -> <<"M","O","V","I","M","I","E","N","T","O"," ","E","S","P","E","R","A","N","Z","A"," ","P","A","Z"," ","Y"," ","L","I","B","E","R","T","A","D">>
      [] s = "MOVIMIENTO FUERZA CIUDADANA" -> <<"M","O","V","I","M","I","E","N","T","O"," ","F","U","E","R","Z","A"," ","C","I","U","D","A","D","A","N","A">>
      [] s = "MOVIMIENTO POLITICO COLOMBIA HUMANA" -> <<"M","O","V","I","M","I","E","N","T","O"," ","P","O","L","I","T","I","C","O"," ","C","O","L","O","M","B","I","A"," ","H","U","M","A","N","A">>
      [] s = "NUEVA FUERZA DEMOCRATICA" -> <<"N","U","E","V","A"," ","F","U","E","R","Z","A"," ","D","E","M","O","C","R","A","T","I","C","A">>
      [] s = "PARTIDO ALIANZA SOCIAL INDEPENDIENTE ASI" -> <<"P","A","R","T","I","D","O"," ","A","L","I","A","N","Z","A"," ","S","O","C","I","A","L"," ","I","N","D","E","P","E","N","D","I","E","N","T","E"," ","A","S","I">>
      [] s = "PARTIDO ALIANZA VERDE" -> <<"P","A","R","T","I","D","O"," ","A","L","I","A","N","Z","A"," ","V","E","R","D","E">>
      [] s = "PARTIDO CAMBIO RADICAL" -> <<"P","A","R","T","I","D","O"," ","C","A","M","B","I","O"," ","R","A","D","I","C","A","L">>
      [] s = "PARTIDO CENTRO DEMOCRATICO" -> <<"P","A","R","T","I","D","O"," ","C","E","N","T","R","O"," ","D","E","M","O","C","R","A","T","I","C","O">>
      [] s = "PARTIDO COLOMBIA JUSTA LIBRES" -> <<"P","A","R","T","I","D","O"," ","C","O","L","O","M","B","I","A"," ","J","U","S","T","A"," ","L","I","B","R","E","S">>
      [] s = "PARTIDO COLOMBIA RENACIENTE" -> <<"P","A","R","T","I","D","O"," ","C","O","L","O","M","B","I","A"," ","R","E","N","A","C","I","E","N","T","E">>
      [] s = "PARTIDO COMUNES" -> <<"P","A","R","T","I","D","O"," ","C","O","M","U","N","E","S">>
      [] s = "PARTIDO COMUNISTA COLOMBIANO" -> <<"P","A","R","T","I","D","O"," ","C","O","M","U","N","I","S","T","A"," ","C","O","L","O","M","B","I","A","N","O">>
      [] s = "PARTIDO CONSERVADOR COLOMBIANO" -> <<"P","A","R","T","I","D","O"," ","C","O","N","S","E","R","V","A","D","O","R"," ","C","O","L","O","M","B","I","A","N","O">>
      [] s = "PARTIDO DE LA UNION POR LA GENTE PARTIDO DE LA U" -> <<"P","A","R","T","I","D","O"," ","D","E"," ","L","A"," ","U","N","I","O","N"," ","P","O","R"," ","L","A"," ","G","E","N","T","E"," ","P","A","R","T","I","D","O"," ","D","E"," ","L","A"," ","U">>
      [] s = "PARTIDO SOCIAL DE UNIDAD NACIONAL  PARTIDO DE LA U" -> <<"P","A","R","T","I","D","O"," ","S","O","C","I","A","L"," ","D","E"," ","U","N","I","D","A","D"," ","N","A","C","I","O","N","A","L"," "," ","P","A","R","T","I","D","O"," ","D","E"," ","L","A"," ","U">>
      [] s = "PARTIDO DEL TRABAJO DE COLOMBIA PTC" -> <<"P","A","R","T","I","D","O"," ","D","E","L"," ","T","R","A","B","A","J","O"," ","D","E"," ","C","O","L","O","M","B","I","A"," ","P","T","C">>
      [] s = "PARTIDO DEMOCRATA COLOMBIANO" -> <<"P","A","R","T","I","D","O"," ","D","E","M","O","C","R","A","T","A"," ","C","O","L","O","M","B","I","A","N","O">>
      [] s = "PARTIDO ECOLOGISTA COLOMBIANO" -> <<"P","A","R","T","I","D","O"," ","E","C","O","L","O","G","I","S","T","A"," ","C","O","L","O","M","B","I","A","N","O">>
      [] s = "PARTIDO LIBERAL COLOMBIANO" -> <<"P","A","R","T","I","D","O"," ","L","I","B","E","R","A","L"," ","C","O","L","O","M","B","I","A","N","O">>
      [] s = "LIGA DE GOBERNANTES ANTICORRUPCION" -> <<"L","I","G","A"," ","D","E"," ","G","O","B","E","R","N","A","N","T","E","S"," ","A","N","T","I","C","O","R","R","U","P","C","I","O","N">>
      [] s = "PARTIDO NUEVO LIBERALISMO" -> <<"P","A","R","T","I","D","O"," ","N","U","E","V","O"," ","L","I","B","E","R","A","L","I","S","M","O">>
      [] s = "PARTIDO POLO DEMOCRATICO ALTERNATIVO" -> <<"P","A","R","T","I","D","O"," ","P","O","L","O"," ","D","E","M","O","C","R","A","T","I","C","O"," ","A","L","T","E","R","N","A","T","I","V","O">>
      [] s = "PARTIDO POLITICO CREEMOS" -> <<"P","A","R","T","I","D","O"," ","P","O","L","I","T","I","C","O"," ","C","R","E","E","M","O","S">>
      [] s = "PARTIDO POLITICO DIGNIDAD" -> <<"P","A","R","T","I","D","O"," ","P","O","L","I","T","I","C","O"," ","D","I","G","N","I","D","A","D">>
      [] s = "PARTIDO POLITICO GENTE EN MOVIMIENTO" -> <<"P","A","R","T","I","D","O"," ","P","O","L","I","T","I","C","O"," ","G","E","N","T","E"," ","E","N"," ","M","O","V","I","M","I","E","N","T","O">>
      [] s = "PARTIDO POLITICO LA FUERZA DE LA PAZ" -> <<"P","A","R","T","I","D","O"," ","P","O","L","I","T","I","C","O"," ","L","A"," ","F","U","E","R","Z","A"," ","D","E"," ","L","A"," ","P","A","Z">>
      [] s = "PARTIDO POLITICO MIRA" -> <<"P","A","R","T","I","D","O"," ","P","O","L","I","T","I","C","O"," ","M","I","R","A">>
      [] s = "PARTIDO UNION PATRIOTICA UP" -> <<"P","A","R","T","I","D","O"," ","U","N","I","O","N"," ","P","A","T","R","I","O","T","I","C","A"," ","U","P">>
      [] s = "PARTIDO VERDE OXIGENO" -> <<"P","A","R","T","I","D","O"," ","V","E","R","D","E"," ","O","X","I","G","E","N","O">>
      [] s = "TODOS SOMOS COLOMBIA" -> <<"T","O","D","O","S"," ","S","O","M","O","S"," ","C","O","L","O","M","B","I","A">>
      [] s = "norte de san" -> <<"n","o","r","t","e"," ","d","e"," ","s","a","n">>
      [] s = "norte de santander" -> <<"n","o","r","t","e"," ","d","e"," ","s","a","n","t","a","n","d","e","r">>
      [] s = "MOVIMIENTO X" -> <<"M","O","V","I","M","I","E","N","T","O"," ","X">>
      [] s = "Partido Liberal" -> <<"P","a","r","t","i","d","o"," ","L","i","b","e","r","a","l">>
      [] s = "Norte de Santander" -> <<"N","o","r","t","e"," ","d","e"," ","S","a","n","t","a","n","d","e","r">>
      [] s = "San José de Cúcuta" -> <<"S","a","n"," ","J","o","s","é"," ","d","e"," ","C","ú","c","u","t","a">>
      [] s = "Cúcuta" -> <<"C","ú","c","u","t","a">>
      [] s = "Ocaña" -> <<"O","c","a","ñ","a">>
      [] s = "A" -> <<"A">>
      [] s = "B" -> <<"B">>
      [] s = "Bogotá" -> <<"B","o","g","o","t","á">>
      [] s = "Bogota DC" -> <<"B","o","g","o","t","a"," ","D","C">>
      [] s = "Cali" -> <<"C","a","l","i">>
      [] s = "Buga" -> <<"B","u","g","a">>
      [] s = "Une" -> <<"U","n","e">>
      [] s = "Valle del Cauca" -> <<"V","a","l","l","e"," ","d","e","l"," ","C","a","u","c","a">>
      [] s = "Cundinamarca" -> <<"C","u","n","d","i","n","a","m","a","r","c","a">>
      [] s = "Alcaldía de Bogotá DC" -> <<"A","l","c","a","l","d","í","a"," ","d","e"," ","B","o","g","o","t","á"," ","D","C">>
      [] s = "Hospital de Cali y Buga" -> <<"H","o","s","p","i","t","a","l"," ","d","e"," ","C","a","l","i"," ","y"," ","B","u","g","a">>
      [] s = "Municipio de Une" -> <<"M","u","n","i","c","i","p","i","o"," ","d","e"," ","U","n","e">>
      [] s = "No Definido" -> <<"N","o"," ","D","e","f","i","n","i","d","o">>
      [] s = "no definido" -> <<"n","o"," ","d","e","f","i","n","i","d","o">>
      [] s = "Medellín" -> <<"M","e","d","e","l","l","í","n">>
      [] s = "Antioquia" -> <<"A","n","t","i","o","q","u","i","a">>
      [] s = "bogota" -> <<"b","o","g","o","t","a">>
      [] s = "bogota dc" -> <<"b","o","g","o","t","a"," ","d","c">>
      [] s = "alcaldia de bogota dc" -> <<"a","l","c","a","l","d","i","a"," ","d","e"," ","b","o","g","o","t","a"," ","d","c">>
      [] s = "nan" -> <<"n","a","n">>
      [] s = "Bogotá " -> <<"B","o","g","o","t","á"," ">>
      [] s = "D.C. " -> <<"D",".","C","."," ">>
      [] s = "Municipio de " -> <<"M","u","n","i","c","i","p","i","o"," ","d","e"," ">>
      [] s = "Cartagena de Indias" -> <<"C","a","r","t","a","g","e","n","a"," ","d","e"," ","I","n","d","i","a","s">>
      [] s = "Distrito Turístico " -> <<"D","i","s","t","r","i","t","o"," ","T","u","r","í","s","t","i","c","o"," ">>
      [] s = "y Cultural" -> <<"y"," ","C","u","l","t","u","r","a","l">>
      [] s = "dc" -> <<"d","c">>
      [] s = "Colombia" -> <<"C","o","l","o","m","b","i","a">>
      [] s = "d.c." -> <<"d",".","c",".">>
      [] s = "distrito turistico y cultural" -> <<"d","i","s","t","r","i","t","o"," ","t","u","r","i","s","t","i","c","o"," ","y"," ","c","u","l","t","u","r","a","l">>
      [] s = "distrito turistico" -> <<"d","i","s","t","r","i","t","o"," ","t","u","r","i","s","t","i","c","o">>
      [] s = "municipio de " -> <<"m","u","n","i","c","i","p","i","o"," ","d","e"," ">>
      [] s = "cartagena de indias" -> <<"c","a","r","t","a","g","e","n","a"," ","d","e"," ","i","n","d","i","a","s">>
      [] s = "cartagena" -> <<"c","a","r","t","a","g","e","n","a">>
      [] s = "barranquilla" -> <<"b","a","r","r","a","n","q","u","i","l","l","a">>
      [] s = "santa marta" -> <<"s","a","n","t","a"," ","m","a","r","t","a">>
      [] s = "san jose de cucuta" -> <<"s","a","n"," ","j","o","s","e"," ","d","e"," ","c","u","c","u","t","a">>
      [] s = "cucuta" -> <<"c","u","c","u","t","a">>
      [] s = "san andres" -> <<"s","a","n"," ","a","n","d","r","e","s">>
      [] s = "providencia" -> <<"p","r","o","v","i","d","e","n","c","i","a">>
      [] s = "Nariño" -> <<"N","a","r","i","ñ","o">>
      [] s = "nario" -> <<"n","a","r","i","o">>
      [] s = "narino" -> <<"n","a","r","i","n","o">>
      [] s = "ALCALDIA DE CALI" -> <<"A","L","C","A","L","D","I","A"," ","D","E"," ","C","A","L","I">>
      [] s = "Hospital de Santiago de Cali" -> <<"H","o","s","p","i","t","a","l"," ","d","e"," ","S","a","n","t","i","a","g","o"," ","d","e"," ","C","a","l","i">>
      [] s = "Valle" -> <<"V","a","l","l","e">>
      [] s = "Santiago de Cali" -> <<"S","a","n","t","i","a","g","o"," ","d","e"," ","C","a","l","i">>
      [] s = "alcaldia" -> <<"a","l","c","a","l","d","i","a">>
      [] s = "alcaldía" -> <<"a","l","c","a","l","d","í","a">>
      [] s = "municipio" -> <<"m","u","n","i","c","i","p","i","o">>
      [] s = "0" -> <<"0">>
      [] s = "cali" -> <<"c","a","l","i">>
      [] s = "valle del cauca" -> <<"v","a","l","l","e"," ","d","e","l"," ","c","a","u","c","a">>
      [] s = "Celebrado" -> <<"C","e","l","e","b","r","a","d","o">>
      [] s = "CELEBRADO" -> <<"C","E","L","E","B","R","A","D","O">>
      [] s = "Convocado" -> <<"C","o","n","v","o","c","a","d","o">>
      [] s = "Adjudicado" -> <<"A","d","j","u","d","i","c","a","d","o">>
      [] s = "Borrador" -> <<"B","o","r","r","a","d","o","r">>
      [] s = "Liquidado" -> <<"L","i","q","u","i","d","a","d","o">>
      [] s = "Terminado" -> <<"T","e","r","m","i","n","a","d","o">>
      [] s = "Ejecución" -> <<"E","j","e","c","u","c","i","ó","n">>
      [] s = "Tramitado" -> <<"T","r","a","m","i","t","a","d","o">>
      [] s = "Seleccionado" -> <<"S","e","l","e","c","c","i","o","n","a","d","o">>
      [] s = "Cauca" -> <<"C","a","u","c","a">>
      [] s = "buga" -> <<"b","u","g","a">>
      [] s = "Partido" -> <<"P","a","r","t","i","d","o">>
      [] s = "---" -> <<"-","-","-">>
      [] s = "Coalición Partido Liberal Colombiano y Otros" -> <<"C","o","a","l","i","c","i","ó","n"," ","P","a","r","t","i","d","o"," ","L","i","b","e","r","a","l"," ","C","o","l","o","m","b","i","a","n","o"," ","y"," ","O","t","r","o","s">>
      [] s = "partido" -> <<"p","a","r","t","i","d","o">>
      [] OTHER -> <<>>
\* Chars-end

UpperCase == <<"A","B","C","D","E","F","G","H","I","J","K","L","M","N","O","P","Q",
               "R","S","T","U","V","W","X","Y","Z","Á","É","Í","Ó","Ú","Ü","Ñ">>
LowerCase == <<"a","b","c","d","e","f","g","h","i","j","k","l","m","n","o","p","q",
               "r","s","t","u","v","w","x","y","z","á","é","í","ó","ú","ü","ñ">>

\* the precomposed letters and the base letter NFD leaves once the combining
\* mark (category Mn) is dropped
Marked   == <<"á","é","í","ó","ú","ü","ñ">>
Unmarked == <<"a","e","i","o","u","u","n">>

MapChar(c, from, to) ==
    IF \E i \in 1..Len(from) : from[i] = c
    THEN to[CHOOSE i \in 1..Len(from) : from[i] = c]
    ELSE c

\* str.lower()
Lower(s) == [i \in 1..Len(s) |-> MapChar(s[i], UpperCase, LowerCase)]

\* ''.join(c for c in unicodedata.normalize('NFD', t) if category(c) != 'Mn')
StripMarks(s) == [i \in 1..Len(s) |-> MapChar(s[i], Marked, Unmarked)]

IsSpace(c) == c = " "

RECURSIVE LStrip(_)
LStrip(s) == IF s # <<>> /\ IsSpace(Head(s)) THEN LStrip(Tail(s)) ELSE s

RECURSIVE RStrip(_)
RStrip(s) ==
    IF s # <<>> /\ IsSpace(s[Len(s)]) THEN RStrip(SubSeq(s, 1, Len(s) - 1)) ELSE s

\* str.strip()
Strip(s) == LStrip(RStrip(s))

\* ' '.join(t.split()): runs of whitespace become one space, the ends are trimmed
RECURSIVE SquashSpaces(_)
SquashSpaces(s) ==
    IF s = <<>> THEN <<>>
    ELSE IF IsSpace(Head(s))
         THEN LET rest == LStrip(s)
              IN  IF rest = <<>> THEN <<>> ELSE <<" ">> \o SquashSpaces(rest)
         ELSE <<Head(s)>> \o SquashSpaces(Tail(s))

JoinSplit(s) == SquashSpaces(LStrip(s))

\* s.startswith(p)
StartsWith(s, p) == Len(p) <= Len(s) /\ SubSeq(s, 1, Len(p)) = p

\* p in s
Contains(s, p) ==
    \E i \in 1..(Len(s) - Len(p) + 1) : SubSeq(s, i, i + Len(p) - 1) = p

\* s.replace(old, new): every non-overlapping occurrence, left to right
RECURSIVE Replace(_, _, _)
Replace(s, old, new) ==
    IF s = <<>> THEN <<>>
    ELSE IF StartsWith(s, old)
         THEN new \o Replace(SubSeq(s, Len(old) + 1, Len(s)), old, new)
         ELSE <<Head(s)>> \o Replace(Tail(s), old, new)

(***************************************************************************)
(* secop.py: normalizers and the simplified-procedure predicate.           *)
(***************************************************************************)
\* normalize_txt on a non-null text (the null case is the caller's test)
normalize_txt(txt) ==
    IF txt = NoText THEN NoText
    ELSE JoinSplit(Replace(StripMarks(Lower(Strip(txt))), <<"ñ">>, <<>>))

\* secop.py:28-38
normalize_ciudad(txt) ==
    IF txt = NoText THEN NoText
    ELSE JoinSplit(Replace(Replace(StripMarks(Lower(Strip(txt))), <<"ñ">>, <<>>),
                           <<"Ñ">>, <<>>))

\* secop.py:40-50
normalize_departamento(txt) ==
    IF txt = NoText THEN NoText
    ELSE JoinSplit(Replace(Replace(StripMarks(Lower(Strip(txt))), <<"ñ">>, <<"n">>),
                           <<"Ñ">>, <<"n">>))

\* a mutant of is_simplificada: the inclusion rules are tried before the exclusions
is_simplificada_inclusions_first(m) ==
    IF m = NoText THEN FALSE
    ELSE LET t == normalize_txt(m)
         IN  IF Contains(t, Chars("contratacion directa")) THEN TRUE
             ELSE IF Contains(t, Chars("minima cuantia")) THEN TRUE
             ELSE IF /\ Contains(t, Chars("seleccion abreviada"))
                     /\ Contains(t, Chars("menor cuantia"))
                     /\ ~Contains(t, Chars("subasta inversa")) THEN TRUE
             ELSE IF Contains(t, Chars("regimen especial")) THEN TRUE
             ELSE FALSE

is_simplificada(m) ==
    IF m = NoText THEN FALSE
    ELSE LET t == normalize_txt(m)
         IN  IF \/ StartsWith(t, Chars("enajenacion"))
                \/ Contains(t, Chars("subasta de prueba"))
                \/ StartsWith(t, Chars("solicitud de informacion")) THEN FALSE
             ELSE IF Contains(t, Chars("contratacion directa")) THEN TRUE
             ELSE IF Contains(t, Chars("minima cuantia")) THEN TRUE
             ELSE IF /\ Contains(t, Chars("seleccion abreviada"))
                     /\ Contains(t, Chars("menor cuantia"))
                     /\ ~Contains(t, Chars("subasta inversa")) THEN TRUE
             ELSE IF Contains(t, Chars("regimen especial")) THEN TRUE
             ELSE FALSE

(***************************************************************************)
(* secop.py: the cleaning block (lines 82-114).                            *)
(***************************************************************************)
\* a date the file gives as <<year, month, day>>; NaT is what to_datetime
\* (errors='coerce') leaves for a value that is no date
NaT == <<0, 0, 0>>

DateLess(a, b) ==
    \/ a[1] < b[1]
    \/ a[1] = b[1] /\ a[2] < b[2]
    \/ a[1] = b[1] /\ a[2] = b[2] /\ a[3] < b[3]

Digits == {"0", "1", "2", "3", "4", "5", "6", "7", "8", "9"}

\* str.replace(r'[^0-9]', '', regex=True)
DigitsOnly(s) == SelectSeq(s, LAMBDA c : c \in Digits)

DigitValue(c) ==
    CASE c = "0" -> 0 [] c = "1" -> 1 [] c = "2" -> 2 [] c = "3" -> 3 [] c = "4" -> 4
      [] c = "5" -> 5 [] c = "6" -> 6 [] c = "7" -> 7 [] c = "8" -> 8 [] c = "9" -> 9

\* the NaN that pd.to_numeric(errors='coerce') leaves in the identifier column
NitNaN == -1

\* pd.to_numeric of a string of digits; the empty string is coerced to NaN
RECURSIVE DigitsToNumber(_, _)
DigitsToNumber(s, acc) ==
    IF s = <<>> THEN acc ELSE DigitsToNumber(Tail(s), 10 * acc + DigitValue(Head(s)))

ToNumeric(s) == IF s = <<>> THEN NitNaN ELSE DigitsToNumber(s, 0)

\* a cell of a string column spelled out; a null cell stays null
Spell(cell) == IF cell = NaN THEN NoText ELSE Chars(cell)

\* astype(str) of a cell: a null cell becomes the text 'nan'
AsStr(cell) == IF cell = NaN THEN <<"n", "a", "n">> ELSE Chars(cell)

AwardedWords == {Chars("si"), Chars("sí"), Chars("true"), Chars("1")}

\* a mutant of is_awarded: a value of zero passes the gate (ge instead of gt)
is_awarded_ge(r) ==
    /\ r.valor_total_adjudicacion >= 0
    /\ Lower(Strip(AsStr(r.adjudicado))) \in AwardedWords

\* secop.py:91-96
is_awarded(r) ==
    /\ r.valor_total_adjudicacion > 0
    /\ Lower(Strip(AsStr(r.adjudicado))) \in AwardedWords

\* secop.py:100-101
nit_entidad_of(r) == ToNumeric(DigitsOnly(AsStr(r.nit_entidad)))

\* secop.py:109-111
nit_prov_of(r) ==
    LET d == DigitsOnly(IF r.nit_del_proveedor_adjudicado = NaN
                        THEN <<>> ELSE Chars(r.nit_del_proveedor_adjudicado))
    IN  IF d = <<>> THEN NoText ELSE d

\* secop.py:106
alcaldia_of(r) ==
    LET e == Lower(AsStr(r.entidad))
    IN  IF \/ Contains(e, Chars("alcaldia")) \/ Contains(e, Chars("alcaldía"))
           \/ Contains(e, Chars("municipio"))
        THEN 1 ELSE 0

\* the columns the later sections read, for a row that passed the filters
CleanRow(r) ==
    [nit_entidad |-> nit_entidad_of(r),
     origen_dato |-> r.origen_dato,
     entidad |-> Spell(r.entidad),
     departamento_entidad |-> Spell(r.departamento_entidad),
     ciudad_entidad |-> Spell(r.ciudad_entidad),
     alcaldia |-> alcaldia_of(r),
     id_del_proceso |-> r.id_del_proceso,
     nit_prov |-> nit_prov_of(r),
     valor_total_adjudicacion |-> r.valor_total_adjudicacion,
     fecha_adjudicacion |-> r.fecha_adjudicacion,
     year |-> r.fecha_adjudicacion[1],
     simplificada |-> is_simplificada(Spell(r.modalidad_de_contratacion))]

\* secop.py:86-88, 97, 102
KeptByCleaning(r) ==
    /\ r.fecha_adjudicacion # NaT
    /\ r.fecha_adjudicacion[1] \in 2015..2023
    /\ is_awarded(r)
    /\ nit_entidad_of(r) # NitNaN

MapSeq(s, Op(_)) == [i \in 1..Len(s) |-> Op(s[i])]

CleanTable(rows) == MapSeq(SelectSeq(rows, KeptByCleaning), CleanRow)

(***************************************************************************)
(* Group-by helpers over a table held as a sequence of rows.               *)
(***************************************************************************)
Rows(table) == {table[i] : i \in 1..Len(table)}

\* the elements of a set listed in some fixed order
RECURSIVE SetToSeq(_)
SetToSeq(S) ==
    IF S = {} THEN <<>>
    ELSE LET x == CHOOSE x \in S : TRUE IN <<x>> \o SetToSeq(S \ {x})

RECURSIVE SumValor(_)
SumValor(table) ==
    IF table = <<>> THEN 0
    ELSE Head(table).valor_total_adjudicacion + SumValor(Tail(table))

\* Series.sum() of floats: NaN cells are skipped, an all-NaN group sums to 0
RECURSIVE SumSkipNa(_)
SumSkipNa(S) ==
    IF S = {} THEN RatOfInt(0)
    ELSE LET x == CHOOSE x \in S : TRUE
             rest == SumSkipNa(S \ {x})
         IN  IF IsNaN(x.sq) THEN rest ELSE RatAdd(x.sq, rest)

RECURSIVE SumVi(_)
SumVi(S) ==
    IF S = {} THEN 0
    ELSE LET x == CHOOSE x \in S : TRUE IN x.v_i + SumVi(S \ {x})

OfEntity(table, nit) == SelectSeq(table, LAMBDA r : r.nit_entidad = nit)

Entities(table) == {r.nit_entidad : r \in Rows(table)}

\* Series.nunique() of id_del_proceso
NUniqueProcesos(table) == Cardinality({r.id_del_proceso : r \in Rows(table)})

(***************************************************************************)
(* secop.py: the main window 2020-2023 (lines 120-126).                    *)
(***************************************************************************)
\* a mutant of the main window: the year 2019 is part of it
MainWindowRowsFrom2019(table) == SelectSeq(table, LAMBDA r : r.year >= 2019 /\ r.year <= 2023)

\* secop.py:120
MainWindowRows(table) == SelectSeq(table, LAMBDA r : r.year >= 2020 /\ r.year <= 2023)

\* a mutant of contract_counts_main: rows are counted, not distinct processes
ContractCountsByRows(table) ==
    {[nit_entidad |-> e, num_contratos |-> Len(OfEntity(table, e))] : e \in Entities(table)}

\* secop.py:124
ContractCounts(table) ==
    {[nit_entidad |-> e, num_contratos |-> NUniqueProcesos(OfEntity(table, e))] :
        e \in Entities(table)}

NumContratos(counts, nit) == (CHOOSE c \in counts : c.nit_entidad = nit).num_contratos

\* secop.py:125-126
AtLeastTwo(table, counts) ==
    SelectSeq(table, LAMBDA r : NumContratos(counts, r.nit_entidad) >= 2)

(***************************************************************************)
(* secop.py: the descriptive row of each entity (lines 128-141).           *)
(***************************************************************************)
\* a record with the fields of extra added or replaced
WithFields(r, extra) ==
    [f \in DOMAIN r \cup DOMAIN extra |-> IF f \in DOMAIN extra THEN extra[f] ELSE r[f]]

WithoutField(r, name) == [f \in DOMAIN r \ {name} |-> r[f]]

\* "SECOP II" sorts after "SECOP I"
OrigenRank(o) == IF o = "SECOP II" THEN 2 ELSE 1

\* secop.py:133: sort_values("origen_dato", ascending=False) with the default
\* quicksort, which is not stable: rows of one origin may come out in any order
Df_main_sorted(table) ==
    {[i \in 1..Len(table) |-> table[q[i]]] :
        q \in {q \in Permutations(1..Len(table)) :
                 \A i \in 1..(Len(table) - 1) :
                     OrigenRank(table[q[i]].origen_dato)
                         >= OrigenRank(table[q[i + 1]].origen_dato)}}

\* GroupBy first: the first non-null cell of a text column
FirstText(group, Col(_)) ==
    IF \E i \in 1..Len(group) : Col(group[i]) # NoText
    THEN Col(group[CHOOSE i \in 1..Len(group) :
                      /\ Col(group[i]) # NoText
                      /\ \A j \in 1..(i - 1) : Col(group[j]) = NoText])
    ELSE NoText

\* a mutant of entity_info: one row for each entity and origin
Entity_info_by_origin(sorted, counts) ==
    LET keys == {<<r.nit_entidad, r.origen_dato>> : r \in Rows(sorted)}
        listed == SetToSeq(keys)
    IN  [k \in 1..Len(listed) |->
            LET group == SelectSeq(sorted, LAMBDA r : /\ r.nit_entidad = listed[k][1]
                                                      /\ r.origen_dato = listed[k][2])
            IN  [nit_entidad |-> listed[k][1],
                 entidad |-> FirstText(group, LAMBDA r : r.entidad),
                 departamento_entidad |-> FirstText(group, LAMBDA r : r.departamento_entidad),
                 ciudad_entidad |-> FirstText(group, LAMBDA r : r.ciudad_entidad),
                 alcaldia |-> group[1].alcaldia,
                 num_contratos |-> NumContratos(counts, listed[k][1])]]

\* the entity identifiers of a table, ascending (the order of groupby)
RECURSIVE SortedNits(_)
SortedNits(S) ==
    IF S = {} THEN <<>>
    ELSE LET least == CHOOSE x \in S : \A y \in S : x <= y
         IN  <<least>> \o SortedNits(S \ {least})

\* secop.py:135-141: groupby("nit_entidad").agg(first) on the sorted table; the
\* flag alcaldia and num_contratos are never null
Entity_info(sorted, counts) ==
    LET listed == SortedNits(Entities(sorted))
    IN  [k \in 1..Len(listed) |->
            LET group == OfEntity(sorted, listed[k])
            IN  [nit_entidad |-> listed[k],
                 entidad |-> FirstText(group, LAMBDA r : r.entidad),
                 departamento_entidad |-> FirstText(group, LAMBDA r : r.departamento_entidad),
                 ciudad_entidad |-> FirstText(group, LAMBDA r : r.ciudad_entidad),
                 alcaldia |-> group[1].alcaldia,
                 num_contratos |-> NumContratos(counts, listed[k])]]

(***************************************************************************)
(* secop.py: HHI 2020-2023 (lines 213-229).                                *)
(***************************************************************************)
\* a mutant of g_hhi: the value is summed per process, not per supplier
G_hhi_by_process(table) ==
    {[nit_entidad |-> k[1], nit_prov |-> k[2],
      v_i |-> SumValor(SelectSeq(table, LAMBDA r :
                 r.nit_entidad = k[1] /\ r.id_del_proceso = k[2]))] :
        k \in {<<r.nit_entidad, r.id_del_proceso>> : r \in Rows(table)}}

\* a mutant of g_hhi: the rows with a null supplier are in no group (dropna=True)
G_hhi_dropna(table) ==
    {[nit_entidad |-> k[1], nit_prov |-> k[2],
      v_i |-> SumValor(SelectSeq(table, LAMBDA r :
                 r.nit_entidad = k[1] /\ r.nit_prov = k[2]))] :
        k \in {<<r.nit_entidad, r.nit_prov>> : r \in {q \in Rows(table) : q.nit_prov # NoText}}}

\* secop.py:213-215: groupby(nit_entidad, nit_prov, dropna=False): the rows with
\* a null supplier form one group
G_hhi(table) ==
    {[nit_entidad |-> k[1], nit_prov |-> k[2],
      v_i |-> SumValor(SelectSeq(table, LAMBDA r :
                 r.nit_entidad = k[1] /\ r.nit_prov = k[2]))] :
        k \in {<<r.nit_entidad, r.nit_prov>> : r \in Rows(table)}}

\* the pairs of rows a merge on nit_entidad matches
OnEntity(left, right) == {p \in left \X right : p[1].nit_entidad = p[2].nit_entidad}

\* secop.py:217-219
Tot_hhi(g) ==
    {[nit_entidad |-> e, V |-> SumVi({x \in g : x.nit_entidad = e})] :
        e \in {x.nit_entidad : x \in g}}

\* secop.py:221-223
M_hhi(g) ==
    LET tot == Tot_hhi(g)
        with_total == {[nit_entidad |-> p[1].nit_entidad, nit_prov |-> p[1].nit_prov,
                    v_i |-> p[1].v_i, V |-> p[2].V] : p \in OnEntity(g, tot)}
    IN  {[nit_entidad |-> x.nit_entidad, nit_prov |-> x.nit_prov, v_i |-> x.v_i, V |-> x.V,
          s_i |-> Rat(x.v_i, x.V)] : x \in {y \in with_total : y.V > 0}}

WithSq(m) ==
    {[nit_entidad |-> x.nit_entidad, nit_prov |-> x.nit_prov, sq |-> RatMul(x.s_i, x.s_i)] :
        x \in m}

\* secop.py:225-229
Res_hhi(m) ==
    {LET hhi == SumSkipNa({x \in WithSq(m) : x.nit_entidad = e})
     IN  [nit_entidad |-> e, HHI |-> hhi,
          HHI_10000 |-> RatRound(RatMul(hhi, RatOfInt(10000)))] :
        e \in {x.nit_entidad : x \in m}}

(***************************************************************************)
(* secop.py: simplified-procedure shares 2020-2023 (lines 233-248).        *)
(***************************************************************************)
Simplificadas(table) == SelectSeq(table, LAMBDA r : r.simplificada)

\* a mutant of res_conc: the simplified records are counted, not their processes
Res_conc_by_rows(table) ==
    {LET x == OfEntity(table, e)
         procesos_simplif == Len(Simplificadas(x))
         valor_total_conc == SumValor(x)
         valor_simplif == SumValor(Simplificadas(x))
         total_procesos == NUniqueProcesos(x)
     IN  [nit_entidad |-> e,
          procesos_simplif |-> procesos_simplif,
          valor_total_conc |-> valor_total_conc,
          valor_simplif |-> valor_simplif,
          pct_simplif_count |-> Rat(procesos_simplif, total_procesos),
          pct_simplif_value |-> Rat(valor_simplif, valor_total_conc)] :
        e \in Entities(table)}

\* secop.py:233-248
Res_conc(table) ==
    {LET x == OfEntity(table, e)
         procesos_simplif == NUniqueProcesos(Simplificadas(x))
         valor_total_conc == SumValor(x)
         valor_simplif == SumValor(Simplificadas(x))
         total_procesos == NUniqueProcesos(x)
     IN  [nit_entidad |-> e,
          procesos_simplif |-> procesos_simplif,
          valor_total_conc |-> valor_total_conc,
          valor_simplif |-> valor_simplif,
          pct_simplif_count |-> Rat(procesos_simplif, total_procesos),
          pct_simplif_value |-> Rat(valor_simplif, valor_total_conc)] :
        e \in Entities(table)}

(***************************************************************************)
(* secop.py: the output table (lines 251-257).  A column a join leaves     *)
(* empty holds NaN: RatNaN in a float column, -1 in a count column.        *)
(***************************************************************************)
NoCount == -1

\* a left join on nit_entidad: each pair of rows with the same identifier, and
\* each left row without a partner, completed with the cells of blank
LeftJoin(left, right, blank) ==
    {WithFields(p[1], p[2]) : p \in OnEntity(left, right)}
        \cup {WithFields(x, blank) :
                x \in {x \in left : \A y \in right : y.nit_entidad # x.nit_entidad}}

\* secop.py:251: res_hhi.merge(res_conc, how="outer")
OuterJoin(hhi, conc) ==
    LeftJoin(hhi, conc,
             [procesos_simplif |-> NoCount, valor_total_conc |-> NoCount,
              valor_simplif |-> NoCount, pct_simplif_count |-> RatNaN,
              pct_simplif_value |-> RatNaN])
        \cup {WithFields(c, [HHI |-> RatNaN, HHI_10000 |-> RatNaN]) :
                c \in {c \in conc : \A h \in hhi : h.nit_entidad # c.nit_entidad}}

\* secop.py:255: the five columns of entity_info that are merged
EntityColumns(info) ==
    {[nit_entidad |-> r.nit_entidad, entidad |-> r.entidad,
      departamento_entidad |-> r.departamento_entidad,
      ciudad_entidad |-> r.ciudad_entidad, alcaldia |-> r.alcaldia] : r \in Rows(info)}

\* secop.py:251-262: the outer join, the left joins with the counts and the
\* entity information, the period and the normalized department and municipality
Final_df(hhi, conc, counts, info) ==
    LET with_counts == LeftJoin(OuterJoin(hhi, conc), counts, [num_contratos |-> NoCount])
        with_info == LeftJoin(with_counts, EntityColumns(info),
                              [entidad |-> NoText, departamento_entidad |-> NoText,
                               ciudad_entidad |-> NoText, alcaldia |-> NoCount])
    IN  {WithFields(x, [periodo |-> "2020-2023",
                        departamento_entidad |->
                            normalize_departamento(x.departamento_entidad),
                        ciudad_entidad |-> normalize_ciudad(x.ciudad_entidad)]) :
            x \in with_info}

(***************************************************************************)
(* secop.py: calculate_metrics_custom_period (lines 269-316) and the join  *)
(* of its result into the output table (line 326).  The column log_valor   *)
(* (a logarithm) is left out: no claim reads it.                           *)
(***************************************************************************)
\* secop.py:271-274
CtrlWindowRows(table) ==
    SelectSeq(table, LAMBDA r : /\ ~DateLess(r.fecha_adjudicacion, <<2015, 1, 1>>)
                                /\ DateLess(r.fecha_adjudicacion, <<2019, 1, 1>>))

\* secop.py:281-295
Aggs(table) ==
    {LET x == OfEntity(table, e)
         num_contratos_p == NUniqueProcesos(x)
         valor_total_p == SumValor(x)
         simplificada_count == NUniqueProcesos(Simplificadas(x))
         simplificada_valor == SumValor(Simplificadas(x))
     IN  [nit_entidad |-> e,
          valor_total_p |-> valor_total_p,
          num_contratos_ctrl |-> num_contratos_p,
          pct_simplif_count_ctrl |-> Rat(simplificada_count, num_contratos_p),
          pct_simplif_value_ctrl |-> Rat(simplificada_valor, valor_total_p)] :
        e \in Entities(table)}

\* secop.py:297-302: groupby(nit_entidad, nit_prov) with the default dropna=True:
\* the rows with a null supplier are in no group
G_prov(table, aggs) ==
    LET known == SelectSeq(table, LAMBDA r : r.nit_prov # NoText)
        g == G_hhi(known)
    IN  {[nit_entidad |-> p[1].nit_entidad, nit_prov |-> p[1].nit_prov, v_i |-> p[1].v_i,
          valor_total_p |-> p[2].valor_total_p,
          s_i |-> Rat(p[1].v_i, p[2].valor_total_p)] : p \in OnEntity(g, aggs)}

\* secop.py:304-309
Hhi_p(g) ==
    {LET hhi == SumSkipNa({x \in WithSq(g) : x.nit_entidad = e})
     IN  [nit_entidad |-> e, HHI_ctrl |-> hhi,
          HHI_10000_ctrl |-> RatRound(RatMul(hhi, RatOfInt(10000)))] :
        e \in {x.nit_entidad : x \in g}}

\* secop.py:311-316: aggs left-joined with hhi_p
CtrlResult(aggs, hhi) ==
    {[nit_entidad |-> a.nit_entidad,
      num_contratos_ctrl |-> a.num_contratos_ctrl,
      HHI_ctrl |-> IF \E h \in hhi : h.nit_entidad = a.nit_entidad
                   THEN (CHOOSE h \in hhi : h.nit_entidad = a.nit_entidad).HHI_ctrl
                   ELSE RatNaN,
      HHI_10000_ctrl |-> IF \E h \in hhi : h.nit_entidad = a.nit_entidad
                         THEN (CHOOSE h \in hhi : h.nit_entidad = a.nit_entidad).HHI_10000_ctrl
                         ELSE RatNaN,
      pct_simplif_count_ctrl |-> a.pct_simplif_count_ctrl,
      pct_simplif_value_ctrl |-> a.pct_simplif_value_ctrl] : a \in aggs}

\* the control columns of an entity the control table has no row for
NoCtrl ==
    [num_contratos_ctrl |-> NoCount, HHI_ctrl |-> RatNaN, HHI_10000_ctrl |-> RatNaN,
     pct_simplif_count_ctrl |-> RatNaN, pct_simplif_value_ctrl |-> RatNaN]

\* secop.py:326: final_df left-joined with ctrl_combined
WithCtrl(final, ctrl) == LeftJoin(final, ctrl, NoCtrl)

(***************************************************************************)
(* secop.py as a state machine.  The input is the concatenation of the two *)
(* intermediate files: at most MaxRows rows, all drawn from one of the     *)
(* families of rows, listed in a fixed order (the one section that depends *)
(* on the order of the rows, entity_info, sorts them first).               *)
(***************************************************************************)
MaxRows == 3

MainDate == <<2021, 6, 15>>
CtrlDate == <<2018, 12, 31>>

\* one entity in the main window: its suppliers, values and processes vary
ConcentrationRows ==
    [nit_entidad : {"900123456"},
     origen_dato : {"SECOP II"},
     entidad : {"Alcaldía de Bogotá DC"},
     departamento_entidad : {"Bogotá"},
     ciudad_entidad : {"Bogotá"},
     id_del_proceso : {"PR-1", "PR-2"},
     nit_del_proveedor_adjudicado : {"P1", "P2", NaN},
     valor_total_adjudicacion : {100, 300, 600},
     fecha_adjudicacion : {MainDate},
     adjudicado : {"Si"},
     modalidad_de_contratacion : {"Contratación Directa "}]

\* two entities over both windows, and rows the cleaning block drops
ThresholdRows ==
    [nit_entidad : {"900123456", "800.100.200"},
     origen_dato : {"SECOP II"},
     entidad : {"Alcaldía de Bogotá DC"},
     departamento_entidad : {"Bogotá"},
     ciudad_entidad : {"Bogotá"},
     id_del_proceso : {"PR-1", "PR-2"},
     nit_del_proveedor_adjudicado : {"P1"},
     valor_total_adjudicacion : {100},
     fecha_adjudicacion : {MainDate, CtrlDate},
     adjudicado : {"Si"},
     modalidad_de_contratacion : {"Licitación Pública "}]
    \cup
    [nit_entidad : {"900123456"},
     origen_dato : {"SECOP II"},
     entidad : {"Alcaldía de Bogotá DC"},
     departamento_entidad : {"Bogotá"},
     ciudad_entidad : {"Bogotá"},
     id_del_proceso : {"PR-2"},
     nit_del_proveedor_adjudicado : {"P2"},
     valor_total_adjudicacion : {100},
     fecha_adjudicacion : {<<2019, 1, 1>>, <<2024, 1, 1>>, NaT},
     adjudicado : {"Si"},
     modalidad_de_contratacion : {NaN}]
    \cup
    [nit_entidad : {"900123456", "SIN NIT"},
     origen_dato : {"SECOP II"},
     entidad : {"Alcaldía de Bogotá DC"},
     departamento_entidad : {"Bogotá"},
     ciudad_entidad : {"Bogotá"},
     id_del_proceso : {"PR-2"},
     nit_del_proveedor_adjudicado : {"P2"},
     valor_total_adjudicacion : {100},
     fecha_adjudicacion : {MainDate},
     adjudicado : {"No"},
     modalidad_de_contratacion : {"Mínima Cuantía "}]
    \cup
    [nit_entidad : {"0"},
     origen_dato : {"SECOP II"},
     entidad : {"Alcaldía de Bogotá DC"},
     departamento_entidad : {"Bogotá"},
     ciudad_entidad : {"Bogotá"},
     id_del_proceso : {"PR-1", "PR-2"},
     nit_del_proveedor_adjudicado : {"P1"},
     valor_total_adjudicacion : {100},
     fecha_adjudicacion : {MainDate},
     adjudicado : {"Si"},
     modalidad_de_contratacion : {"Mínima Cuantía "}]

\* one entity over both windows, with values of zero and suppliers whose
\* identifier holds no digit
ZeroValueRows ==
    [nit_entidad : {"900123456"},
     origen_dato : {"SECOP II"},
     entidad : {"Alcaldía de Bogotá DC"},
     departamento_entidad : {"Bogotá"},
     ciudad_entidad : {"Bogotá"},
     id_del_proceso : {"PR-1", "PR-2"},
     nit_del_proveedor_adjudicado : {"P1", "SIN NIT"},
     valor_total_adjudicacion : {0, 100},
     fecha_adjudicacion : {MainDate, CtrlDate},
     adjudicado : {"Si"},
     modalidad_de_contratacion : {"Mínima Cuantía "}]

\* a record of one entity in the main window: its origin, whether its name and
\* its municipality are filled in, and its process
DescriptionRow(o, named, c, p) ==
    [nit_entidad |-> "900123456",
     origen_dato |-> o,
     entidad |-> IF ~named THEN NaN
                 ELSE IF o = "SECOP II" THEN "ALCALDIA DE CALI"
                 ELSE "Hospital de Santiago de Cali",
     departamento_entidad |-> IF o = "SECOP II" THEN "Valle del Cauca" ELSE "Valle",
     ciudad_entidad |-> IF ~c THEN NaN
                        ELSE IF o = "SECOP II" THEN "Cali" ELSE "Santiago de Cali",
     id_del_proceso |-> p,
     nit_del_proveedor_adjudicado |-> "P1",
     valor_total_adjudicacion |-> 100,
     fecha_adjudicacion |-> MainDate,
     adjudicado |-> "Si",
     modalidad_de_contratacion |-> "Licitación Pública "]

\* one entity in the main window described by records of both origins, whose
\* municipality or name may be null
DescriptionRows ==
    {DescriptionRow(o, TRUE, c, p) :
        o \in {"SECOP I", "SECOP II"}, c \in BOOLEAN, p \in {"PR-1", "PR-2"}}
    \cup {DescriptionRow(o, FALSE, TRUE, p) :
            o \in {"SECOP I", "SECOP II"}, p \in {"PR-1", "PR-2"}}

\* the dates on the two sides of each bound of the two windows
BoundaryDates ==
    <<<<2015, 1, 1>>, <<2018, 12, 31>>, <<2019, 1, 1>>, <<2019, 12, 31>>,
      <<2020, 1, 1>>, <<2023, 12, 31>>>>

\* 5 to the power n
RECURSIVE PowerOfFive(_)
PowerOfFive(n) == IF n = 0 THEN 1 ELSE 5 * PowerOfFive(n - 1)

\* one entity with records on the boundary dates; the value of a record tells
\* its date, so that a total tells which records were added up
WindowRows ==
    {[nit_entidad |-> "900123456",
      origen_dato |-> "SECOP II",
      entidad |-> "Alcaldía de Bogotá DC",
      departamento_entidad |-> "Bogotá",
      ciudad_entidad |-> "Bogotá",
      id_del_proceso |-> p,
      nit_del_proveedor_adjudicado |-> "P1",
      valor_total_adjudicacion |-> PowerOfFive(k - 1),
      fecha_adjudicacion |-> BoundaryDates[k],
      adjudicado |-> "Si",
      modalidad_de_contratacion |-> "Licitación Pública "] :
        k \in 1..Len(BoundaryDates), p \in {"PR-1", "PR-2"}}

\* one entity whose records mix simplified and other procedures, in both
\* windows; a process may have several records
SharesRows ==
    {[nit_entidad |-> "900123456",
      origen_dato |-> "SECOP II",
      entidad |-> "Alcaldía de Bogotá DC",
      departamento_entidad |-> "Bogotá",
      ciudad_entidad |-> "Bogotá",
      id_del_proceso |-> p,
      nit_del_proveedor_adjudicado |-> "P1",
      valor_total_adjudicacion |-> IF p = "PR-1" THEN 100 ELSE 300,
      fecha_adjudicacion |-> d,
      adjudicado |-> "Si",
      modalidad_de_contratacion |-> m] :
        p \in {"PR-1", "PR-2"}, d \in {MainDate, CtrlDate},
        m \in {"Mínima Cuantía ", "Licitación Pública "}}

\* the index sequences of length n over 1..hi that never decrease
RECURSIVE Ascending(_, _)
Ascending(n, hi) ==
    IF n = 0 THEN {<<>>}
    ELSE UNION {{Append(s, j) : s \in Ascending(n - 1, j)} : j \in 1..hi}

TablesOver(family, maxLen) ==
    LET listed == SetToSeq(family)
    IN  UNION {{[i \in 1..n |-> listed[ix[i]]] : ix \in Ascending(n, Len(listed))} :
               n \in 0..maxLen}

SecopInputs ==
    TablesOver(ConcentrationRows, MaxRows) \cup TablesOver(ThresholdRows, MaxRows)
        \cup TablesOver(ZeroValueRows, MaxRows) \cup TablesOver(DescriptionRows, MaxRows)
        \cup TablesOver(WindowRows, MaxRows) \cup TablesOver(SharesRows, MaxRows)

\* municipios_colombia.csv: present, with three municipalities
MunicipiosFile ==
    <<[municipio |-> Chars("Bogotá"), departamento |-> Chars("Bogotá")],
      [municipio |-> Chars("Bogota DC"), departamento |-> Chars("Bogotá")],
      [municipio |-> Chars("Cali"), departamento |-> Chars("Valle del Cauca")]>>

InitSecop ==
    /\ pc = "clean"
    /\ files \in SecopInputs
    /\ df = <<>> /\ df_main = <<>> /\ contract_counts_main = {}
    /\ m_hhi = {} /\ res_hhi = {} /\ res_conc = {} /\ final_df = {}
    /\ g_prov = {} /\ ctrl_combined = {}
    /\ df_mun = MunicipiosFile /\ mun_to_dept = <<>> /\ entity_info = <<>>
    /\ updates = <<>>
    /\ SimpIdle /\ OutIdle /\ NormIdle

\* secop.py:74-114
Clean ==
    /\ pc = "clean"
    /\ df' = CleanTable(files)
    /\ pc' = "main"
    /\ UNCHANGED <<files, df_main, contract_counts_main, m_hhi, res_hhi, res_conc,
                   final_df, g_prov, ctrl_combined, nonSecopVars>>

\* secop.py:120-126
MainWindow ==
    /\ pc = "main"
    /\ contract_counts_main' = ContractCounts(MainWindowRows(df))
    /\ df_main' = AtLeastTwo(MainWindowRows(df), contract_counts_main')
    /\ pc' = "entity"
    /\ UNCHANGED <<files, df, m_hhi, res_hhi, res_conc, final_df, g_prov, ctrl_combined,
                   nonSecopVars>>

\* secop.py:213-229
ComputeHHI ==
    /\ pc = "recovered"
    /\ m_hhi' = M_hhi(G_hhi(df_main))
    /\ res_hhi' = Res_hhi(m_hhi')
    /\ pc' = "conc"
    /\ UNCHANGED <<files, df, df_main, contract_counts_main, res_conc, final_df, g_prov,
                   ctrl_combined, nonSecopVars>>

\* secop.py:233-248
ComputeConc ==
    /\ pc = "conc"
    /\ res_conc' = Res_conc(df_main)
    /\ pc' = "merge"
    /\ UNCHANGED <<files, df, df_main, contract_counts_main, m_hhi, res_hhi, final_df,
                   g_prov, ctrl_combined, nonSecopVars>>

\* secop.py:251-262
MergeMain ==
    /\ pc = "merge"
    /\ final_df' = Final_df(res_hhi, res_conc, contract_counts_main, entity_info)
    /\ pc' = "ctrl"
    /\ UNCHANGED <<files, df, df_main, contract_counts_main, m_hhi, res_hhi, res_conc,
                   g_prov, ctrl_combined, nonSecopVars>>

\* secop.py:319: ctrl_combined = calculate_metrics_custom_period(df, "ctrl")
ComputeCtrl ==
    /\ pc = "ctrl"
    /\ LET df_p == CtrlWindowRows(df)
           aggs == Aggs(df_p)
       IN  /\ g_prov' = G_prov(df_p, aggs)
           /\ ctrl_combined' = CtrlResult(aggs, Hhi_p(g_prov'))
    /\ pc' = "merge_ctrl"
    /\ UNCHANGED <<files, df, df_main, contract_counts_main, m_hhi, res_hhi, res_conc,
                   final_df, nonSecopVars>>

\* secop.py:326-338
MergeCtrl ==
    /\ pc = "merge_ctrl"
    /\ final_df' = WithCtrl(final_df, ctrl_combined)
    /\ pc' = "saved"
    /\ UNCHANGED <<files, df, df_main, contract_counts_main, m_hhi, res_hhi, res_conc,
                   g_prov, ctrl_combined, nonSecopVars>>

(***************************************************************************)
(* Claims about secop.py, stated over the cleaned table df and the tables  *)
(* derived from it.                                                        *)
(***************************************************************************)
InMainYears(r) == r.year >= 2020 /\ r.year <= 2023

InCtrlDates(r) ==
    /\ ~DateLess(r.fecha_adjudicacion, <<2015, 1, 1>>)
    /\ DateLess(r.fecha_adjudicacion, <<2019, 1, 1>>)

\* the eligible rows of an entity in a window
MainRowsOf(nit) == SelectSeq(df, LAMBDA r : r.nit_entidad = nit /\ InMainYears(r))
CtrlRowsOf(nit) == SelectSeq(df, LAMBDA r : r.nit_entidad = nit /\ InCtrlDates(r))

\* the distinct suppliers of a table, the rows without a supplier taken as one
SuppliersOf(table) == {r.nit_prov : r \in Rows(table)}

ValueTo(table, prov) == SumValor(SelectSeq(table, LAMBDA r : r.nit_prov = prov))

RECURSIVE SumOfSquares(_, _)
SumOfSquares(table, provs) ==
    IF provs = {} THEN 0
    ELSE LET q == CHOOSE q \in provs : TRUE
         IN  ValueTo(table, q) * ValueTo(table, q) + SumOfSquares(table, provs \ {q})

\* sum over suppliers of (v_i / V)^2, as one fraction
ExpectedHHI(table) ==
    Rat(SumOfSquares(table, SuppliersOf(table)), SumValor(table) * SumValor(table))

\* k is the integer nearest to 10000 * h
NearestTo10000Times(k, h) ==
    /\ k[2] = 1
    /\ 2 * Abs(k[1] * h[2] - 10000 * h[1]) <= h[2]

\* two contracts of 100 and 300 to supplier P1 and one of 600 to supplier P2
IsHHIExample(table) ==
    /\ Len(table) = 3
    /\ {<<r.nit_prov, r.valor_total_adjudicacion>> : r \in Rows(table)}
           = {<<DigitsOnly(Chars("P1")), 100>>, <<DigitsOnly(Chars("P1")), 300>>,
              <<DigitsOnly(Chars("P2")), 600>>}

\* C1: for every entity of the output table, HHI is the sum over the entity's
\* distinct suppliers of (v_i / V)^2 computed from its eligible 2020-2023 rows,
\* and HHI_10000 is the integer nearest to 10000 * HHI; contracts of 100 and 300
\* to P1 and 600 to P2 give HHI = 13/25 = 0.52 and HHI_10000 = 5200.
C1_MainWindowHHI ==
    \A x \in final_df :
        LET rows == MainRowsOf(x.nit_entidad)
        IN  /\ x.HHI = ExpectedHHI(rows)
            /\ NearestTo10000Times(x.HHI_10000, x.HHI)
            /\ IsHHIExample(rows) => x.HHI = <<13, 25>> /\ x.HHI_10000 = <<5200, 1>>

\* the run has ended and the output holds the entity of the example with 0.52 and 5200
C1_Witness ==
    /\ pc = "saved"
    /\ \E x \in final_df :
        /\ IsHHIExample(MainRowsOf(x.nit_entidad))
        /\ x.HHI = <<13, 25>>
        /\ x.HHI_10000 = <<5200, 1>>

RECURSIVE SumShares(_)
SumShares(S) ==
    IF S = {} THEN RatOfInt(0)
    ELSE LET x == CHOOSE x \in S : TRUE IN RatAdd(x.s_i, SumShares(S \ {x}))

\* C2: in the main-window computation and in the control-window computation, the
\* supplier shares s_i of every entity with V > 0 sum to exactly 1, also when
\* rows have a null supplier or one without digits.
C2_SharesSumToOne ==
    /\ \A e \in {x.nit_entidad : x \in m_hhi} :
          SumShares({x \in m_hhi : x.nit_entidad = e}) = RatOfInt(1)
    /\ \A e \in {x.nit_entidad : x \in g_prov} :
          SumValor(CtrlRowsOf(e)) > 0 =>
              SumShares({x \in g_prov : x.nit_entidad = e}) = RatOfInt(1)

AllEqualValue(table) ==
    \A p \in SuppliersOf(table), q \in SuppliersOf(table) :
        ValueTo(table, p) = ValueTo(table, q)

HHIWithinBounds(hhi, table) ==
    /\ hhi[1] > 0 /\ RatLeq(hhi, RatOfInt(1))
    /\ hhi = RatOfInt(1) <=> Cardinality(SuppliersOf(table)) = 1
    /\ AllEqualValue(table) => hhi = Rat(1, Cardinality(SuppliersOf(table)))

\* C3: every HHI value, of the main window and of the control window, lies in
\* (0, 1], equals 1 exactly when the entity has a single supplier in the window,
\* and equals 1/N when its N suppliers have equal value.
C3_HHIBounds ==
    /\ \A x \in res_hhi : HHIWithinBounds(x.HHI, MainRowsOf(x.nit_entidad))
    /\ \A x \in ctrl_combined :
          ~IsNaN(x.HHI_ctrl) => HHIWithinBounds(x.HHI_ctrl, CtrlRowsOf(x.nit_entidad))

\* C4: the output table has no row for an entity with fewer than 2 distinct
\* process identifiers among its eligible rows of 2020-2023.
C4_ThresholdEnforced ==
    \A x \in final_df : NUniqueProcesos(MainRowsOf(x.nit_entidad)) >= 2

\* the run has ended; an entity has several 2020-2023 rows sharing one process
\* identifier, or one such row beside control-window rows, and no output row
C4_Witness ==
    /\ pc = "saved"
    /\ \E e \in Entities(df) :
        /\ NUniqueProcesos(MainRowsOf(e)) = 1
        /\ Len(MainRowsOf(e)) >= 2 \/ Len(CtrlRowsOf(e)) >= 2
        /\ \A x \in final_df : x.nit_entidad # e

\* the rows of the input files of an entity in a window, whatever their value
FileMainRowsOf(nit) ==
    SelectSeq(files, LAMBDA r : /\ nit_entidad_of(r) = nit
                                /\ r.fecha_adjudicacion[1] \in 2020..2023)
FileCtrlRowsOf(nit) ==
    SelectSeq(files, LAMBDA r : /\ nit_entidad_of(r) = nit
                                /\ r.fecha_adjudicacion # NaT
                                /\ ~DateLess(r.fecha_adjudicacion, <<2015, 1, 1>>)
                                /\ DateLess(r.fecha_adjudicacion, <<2019, 1, 1>>))

FileEntities == {nit_entidad_of(files[i]) : i \in 1..Len(files)}

OnlyZeroValues(table) ==
    /\ table # <<>>
    /\ \A r \in Rows(table) : r.valor_total_adjudicacion = 0

\* C9: an entity whose contracts in a window all have award value 0 has no row
\* in that window's result: none in the output table (the outer join of the HHI
\* and simplified-share tables) for the main window, none in the control table.
C9_ZeroValueExcluded ==
    \A e \in FileEntities :
        /\ OnlyZeroValues(FileMainRowsOf(e)) =>
              /\ \A x \in final_df : x.nit_entidad # e
              /\ \A x \in res_conc : x.nit_entidad # e
        /\ OnlyZeroValues(FileCtrlRowsOf(e)) =>
              \A x \in ctrl_combined : x.nit_entidad # e

\* the run has ended; an entity has two awarded zero-value processes in 2020-2023
\* and a zero-value contract in the control window, and no row in either table
C9_Witness ==
    /\ pc = "saved"
    /\ \E e \in FileEntities :
        /\ OnlyZeroValues(FileMainRowsOf(e))
        /\ Cardinality({r.id_del_proceso : r \in Rows(FileMainRowsOf(e))}) >= 2
        /\ OnlyZeroValues(FileCtrlRowsOf(e))
        /\ \A x \in final_df : x.nit_entidad # e
        /\ \A x \in ctrl_combined : x.nit_entidad # e

(***************************************************************************)
(* is_simplificada applied to one modality text (secop.py:114 applies it   *)
(* to every row).  The texts are the concatenations of at most MaxModFrags *)
(* fragments, and the null text.                                           *)
(***************************************************************************)
MaxModFrags == 3

ModFragments ==
    {"enajenacion por ", "seleccion abreviada ", "menor cuantia", "Subasta Inversa ",
     "Contratación Directa ", "Mínima Cuantía ", "Régimen Especial ",
     "subasta de prueba ", "Solicitud de Información ", "Licitación Pública ", " "}

RECURSIVE Concats(_, _)
Concats(frags, k) ==
    IF k = 0 THEN {<<>>}
    ELSE LET prev == Concats(frags, k - 1)
         IN  prev \cup {p \o Chars(f) : p \in prev, f \in frags}

ModTexts == Concats(ModFragments, MaxModFrags) \cup {NoText}

InitSimp ==
    /\ pc = "is_simplificada"
    /\ modalidad \in ModTexts
    /\ simplificada = Idle
    /\ SrcIdle /\ SecopIdle /\ RecIdle /\ OutIdle /\ NormIdle

ApplySimplificada ==
    /\ pc = "is_simplificada"
    /\ simplificada' = is_simplificada(modalidad)
    /\ pc' = "returned"
    /\ UNCHANGED <<modalidad, srcVars, secopVars, recVars, outVars, normVars>>

NextSimp == ApplySimplificada

SpecSimp == InitSimp /\ [][NextSimp]_vars

\* the text 'enajenacion por seleccion abreviada menor cuantia'
EnajenacionExample ==
    Chars("enajenacion por ") \o Chars("seleccion abreviada ") \o Chars("menor cuantia")

\* C5: is_simplificada is false on a null text and on a text whose normal form
\* starts with 'enajenacion', contains 'subasta de prueba' or starts with
\* 'solicitud de informacion'; otherwise it is true exactly when the normal form
\* contains 'contratacion directa', 'minima cuantia', 'regimen especial', or
\* 'seleccion abreviada' with 'menor cuantia' and without 'subasta inversa'.
\* 'enajenacion por seleccion abreviada menor cuantia' is not simplified.
C5_SimplificadaPredicate ==
    pc = "returned" =>
        LET t == normalize_txt(modalidad)
            excluded ==
                \/ StartsWith(t, Chars("enajenacion"))
                \/ Contains(t, Chars("subasta de prueba"))
                \/ StartsWith(t, Chars("solicitud de informacion"))
            included ==
                \/ Contains(t, Chars("contratacion directa"))
                \/ Contains(t, Chars("minima cuantia"))
                \/ Contains(t, Chars("regimen especial"))
                \/ /\ Contains(t, Chars("seleccion abreviada"))
                   /\ Contains(t, Chars("menor cuantia"))
                   /\ ~Contains(t, Chars("subasta inversa"))
        IN  /\ modalidad = NoText => simplificada = FALSE
            /\ modalidad # NoText => simplificada = (~excluded /\ included)
            /\ modalidad = EnajenacionExample => simplificada = FALSE

\* an exclusion and an inclusion rule both match, and the exclusion has won
C5_Witness ==
    /\ pc = "returned"
    /\ modalidad = EnajenacionExample
    /\ simplificada = FALSE

(***************************************************************************)
(* outsiders.py: normalize_name and the classification (lines 18-62).      *)
(***************************************************************************)
\* the characters the pattern [^a-z0-9 ] leaves alone
PlainChars == {LowerCase[i] : i \in 1..26} \cup Digits \cup {" "}

RECURSIVE DropOthers(_)
DropOthers(s) == IF s # <<>> /\ Head(s) \notin PlainChars THEN DropOthers(Tail(s)) ELSE s

\* re.sub(r"[^a-z0-9 ]+", " ", name)
RECURSIVE OthersToSpace(_)
OthersToSpace(s) ==
    IF s = <<>> THEN <<>>
    ELSE IF Head(s) \in PlainChars THEN <<Head(s)>> \o OthersToSpace(Tail(s))
         ELSE <<" ">> \o OthersToSpace(DropOthers(s))

\* outsiders.py:18-31
normalize_name(name) ==
    IF name = NoText THEN <<>>
    ELSE LET n == JoinSplit(OthersToSpace(StripMarks(Lower(name))))
         IN  IF n = Chars("norte de san") THEN Chars("norte de santander") ELSE n

\* outsiders.py:36-50
official_orgs_raw ==
    <<"AGRUPACION POLITICA EN MARCHA",
      "INDEPENDIENTES",
      "MOVIMIENTO SALVACION NACIONAL",
      "MOVIMIENTO ALIANZA DEMOCRATICA AMPLIA",
      "MOVIMIENTO ALTERNATIVO INDIGENA Y SOCIAL MAIS",
      "MOVIMIENTO AUTORIDADES INDIGENAS DE COLOMBIA AICO",
      "MOVIMIENTO ESPERANZA PAZ Y LIBERTAD",
      "MOVIMIENTO FUERZA CIUDADANA",
      "MOVIMIENTO POLITICO COLOMBIA HUMANA",
      "NUEVA FUERZA DEMOCRATICA",
      "PARTIDO ALIANZA SOCIAL INDEPENDIENTE ASI",
      "PARTIDO ALIANZA VERDE",
      "PARTIDO CAMBIO RADICAL",
      "PARTIDO CENTRO DEMOCRATICO",
      "PARTIDO COLOMBIA JUSTA LIBRES",
      "PARTIDO COLOMBIA RENACIENTE",
      "PARTIDO COMUNES",
      "PARTIDO COMUNISTA COLOMBIANO",
      "PARTIDO CONSERVADOR COLOMBIANO",
      "PARTIDO DE LA UNION POR LA GENTE PARTIDO DE LA U",
      "PARTIDO SOCIAL DE UNIDAD NACIONAL  PARTIDO DE LA U",
      "PARTIDO DEL TRABAJO DE COLOMBIA PTC",
      "PARTIDO DEMOCRATA COLOMBIANO",
      "PARTIDO ECOLOGISTA COLOMBIANO",
      "PARTIDO LIBERAL COLOMBIANO",
      "LIGA DE GOBERNANTES ANTICORRUPCION",
      "PARTIDO NUEVO LIBERALISMO",
      "PARTIDO POLO DEMOCRATICO ALTERNATIVO",
      "PARTIDO POLITICO CREEMOS",
      "PARTIDO POLITICO DIGNIDAD",
      "PARTIDO POLITICO GENTE EN MOVIMIENTO",
      "PARTIDO POLITICO LA FUERZA DE LA PAZ",
      "PARTIDO POLITICO MIRA",
      "PARTIDO UNION PATRIOTICA UP",
      "PARTIDO VERDE OXIGENO",
      "TODOS SOMOS COLOMBIA">>

\* outsiders.py:51
official_norms == [i \in 1..Len(official_orgs_raw) |-> normalize_name(Chars(official_orgs_raw[i]))]

\* a mutant of is_outsider: only a roster entry contained in the party name counts
is_outsider_one_direction(party_name) ==
    LET n == normalize_name(party_name)
    IN  IF n = <<>> THEN 1
        ELSE IF \E i \in 1..Len(official_norms) : Contains(n, official_norms[i])
             THEN 0
             ELSE 1

\* outsiders.py:56-62
is_outsider(party_name) ==
    LET n == normalize_name(party_name)
    IN  IF n = <<>> THEN 1
        ELSE IF \E i \in 1..Len(official_norms) :
                    Contains(n, official_norms[i]) \/ Contains(official_norms[i], n)
             THEN 0
             ELSE 1

(***************************************************************************)
(* outsiders.py: from the candidate rows to the comparison table.  The     *)
(* input file has the columns Código Departamento and Código Municipio,    *)
(* so group_cols are the two codes (lines 84-86).                          *)
(***************************************************************************)
\* outsiders.py:64-72
Classified(r) ==
    [cod_dept |-> r.cod_dept, cod_mun |-> r.cod_mun,
     nom_dept |-> normalize_name(AsStr(r.nom_dept)),
     nom_mun |-> normalize_name(AsStr(r.nom_mun)),
     anio |-> r.anio, candidato |-> r.candidato, cod_partido |-> r.cod_partido,
     partido |-> r.partido, votos |-> r.votos,
     outsider |-> is_outsider(Spell(r.partido))]

SameGroup(a, b) == a.cod_dept = b.cod_dept /\ a.cod_mun = b.cod_mun

\* a mutant of mask_mixed: a group passes with one class of candidates
MaskAnyClass(table, r) ==
    Cardinality({x.outsider : x \in {y \in Rows(table) : SameGroup(y, r)}}) >= 1

\* outsiders.py:92: transform(lambda s: s.nunique() == 2)
MaskMixed(table, r) ==
    Cardinality({x.outsider : x \in {y \in Rows(table) : SameGroup(y, r)}}) = 2

\* outsiders.py:93
FilterMixed(table) == SelectSeq(table, LAMBDA r : MaskMixed(table, r))

\* a mutant of the sort order: votes ascending
SortsBeforeVotesAscending(a, b) ==
    \/ a.cod_dept < b.cod_dept
    \/ a.cod_dept = b.cod_dept /\ a.cod_mun < b.cod_mun
    \/ SameGroup(a, b) /\ a.outsider < b.outsider
    \/ SameGroup(a, b) /\ a.outsider = b.outsider /\ a.votos < b.votos

\* outsiders.py:105: the codes and the class ascending, the votes descending
SortsBefore(a, b) ==
    \/ a.cod_dept < b.cod_dept
    \/ a.cod_dept = b.cod_dept /\ a.cod_mun < b.cod_mun
    \/ SameGroup(a, b) /\ a.outsider < b.outsider
    \/ SameGroup(a, b) /\ a.outsider = b.outsider /\ a.votos > b.votos

RECURSIVE InsertSorted(_, _)
InsertSorted(s, x) ==
    IF s = <<>> THEN <<x>>
    ELSE IF SortsBefore(x, Head(s)) THEN <<x>> \o s
         ELSE <<Head(s)>> \o InsertSorted(Tail(s), x)

\* sort_values on several columns keeps the file order of rows with equal keys
RECURSIVE SortValues(_, _)
SortValues(table, sorted) ==
    IF table = <<>> THEN sorted
    ELSE SortValues(Tail(table), InsertSorted(sorted, Head(table)))

\* GroupBy.first(): the first non-null cell of a text column
FirstCell(group, Col(_)) ==
    IF \E i \in 1..Len(group) : Col(group[i]) # NaN
    THEN Col(group[CHOOSE i \in 1..Len(group) :
                      /\ Col(group[i]) # NaN
                      /\ \A j \in 1..(i - 1) : Col(group[j]) = NaN])
    ELSE NaN

\* outsiders.py:108: groupby(group_cols + ["outsider"]).first()
Best_candidates(sorted) ==
    {LET group == SelectSeq(sorted, LAMBDA r : /\ r.cod_dept = k[1] /\ r.cod_mun = k[2]
                                               /\ r.outsider = k[3])
     IN  [cod_dept |-> k[1], cod_mun |-> k[2], outsider |-> k[3],
          nom_dept |-> group[1].nom_dept, nom_mun |-> group[1].nom_mun,
          \* the codes, the year and the votes are never null in the inputs
          anio |-> group[1].anio, votos |-> group[1].votos,
          candidato |-> FirstCell(group, LAMBDA r : r.candidato),
          cod_partido |-> group[1].cod_partido,
          partido |-> FirstCell(group, LAMBDA r : r.partido)] :
        k \in {<<r.cod_dept, r.cod_mun, r.outsider>> : r \in Rows(sorted)}}

\* a mutant of merge_cols: the class column is one of the join keys
OnMergeColsWithClass(o, n) ==
    /\ o.cod_dept = n.cod_dept /\ o.cod_mun = n.cod_mun
    /\ o.nom_dept = n.nom_dept /\ o.nom_mun = n.nom_mun
    /\ o.anio = n.anio /\ o.outsider = n.outsider

\* outsiders.py:135-137: merge_cols
OnMergeCols(o, n) ==
    /\ o.cod_dept = n.cod_dept /\ o.cod_mun = n.cod_mun
    /\ o.nom_dept = n.nom_dept /\ o.nom_mun = n.nom_mun
    /\ o.anio = n.anio

\* outsiders.py:111-159: the inner join of the two classes and the margin
Comparison(best) ==
    LET outsiders == {b \in best : b.outsider = 1}
        non_outsiders == {b \in best : b.outsider = 0}
    IN  {LET diferencia_votos == p[1].votos - p[2].votos
             total_votos_top2 == p[1].votos + p[2].votos
         IN  [cod_dept |-> p[1].cod_dept, cod_mun |-> p[1].cod_mun,
              nom_dept |-> p[1].nom_dept, nom_mun |-> p[1].nom_mun, anio |-> p[1].anio,
              candidato_outsider |-> p[1].candidato,
              partido_outsider |-> p[1].partido,
              votos_outsider |-> p[1].votos,
              candidato_no_outsider |-> p[2].candidato,
              partido_no_outsider |-> p[2].partido,
              votos_no_outsider |-> p[2].votos,
              diferencia_votos |-> diferencia_votos,
              margen_victoria |-> Rat(diferencia_votos, total_votos_top2)] :
            p \in {q \in outsiders \X non_outsiders : OnMergeCols(q[1], q[2])}}

(***************************************************************************)
(* outsiders.py as a state machine.  The input file holds at most MaxCands *)
(* candidate rows, all drawn from one of the families, listed in a fixed   *)
(* order.                                                                  *)
(***************************************************************************)
MaxCands == 3

PartyCode(p) == IF p = "PARTIDO LIBERAL COLOMBIANO" THEN 1 ELSE 99

\* two municipalities of one department in one year, names fixed by the codes
TwoMunicipalities ==
    {[cod_dept |-> 54, cod_mun |-> m, nom_dept |-> "Norte de Santander",
      nom_mun |-> IF m = 1 THEN "San José de Cúcuta" ELSE "Ocaña",
      anio |-> 2019, candidato |-> c, cod_partido |-> PartyCode(p), partido |-> p,
      votos |-> v] :
        m \in {1, 2}, c \in {"A", "B"},
        p \in {"MOVIMIENTO X", "PARTIDO LIBERAL COLOMBIANO"}, v \in {5000, 7000}}

\* one municipality over two election years and under two spellings of its name
TwoYears ==
    {[cod_dept |-> 54, cod_mun |-> 1, nom_dept |-> "Norte de Santander",
      nom_mun |-> n, anio |-> y, candidato |-> IF PartyCode(p) = 1 THEN "B" ELSE "A",
      cod_partido |-> PartyCode(p), partido |-> p, votos |-> v] :
        n \in {"San José de Cúcuta", "Cúcuta"}, y \in {2019, 2023},
        p \in {"MOVIMIENTO X", "PARTIDO LIBERAL COLOMBIANO"}, v \in {5000, 7000}}

\* one municipality in one year; the party name is null, blank, punctuation, a
\* fragment of a roster entry, a roster entry, a text around one, or none of these
PartyNames ==
    {[cod_dept |-> 54, cod_mun |-> 1, nom_dept |-> "Norte de Santander",
      nom_mun |-> "Ocaña", anio |-> 2019, candidato |-> "A",
      cod_partido |-> PartyCode(p), partido |-> p, votos |-> 5000] :
        p \in {NaN, " ", "---", "Partido", "PARTIDO LIBERAL COLOMBIANO",
               "Coalición Partido Liberal Colombiano y Otros", "MOVIMIENTO X"}}

ElectionInputs ==
    TablesOver(TwoMunicipalities, MaxCands) \cup TablesOver(TwoYears, MaxCands)
        \cup TablesOver(PartyNames, MaxCands)

InitOut ==
    /\ pc = "classify"
    /\ cand_file \in ElectionInputs
    /\ cand_df = <<>> /\ filtered_df = <<>> /\ best_candidates = {} /\ election_rows = {}
    /\ SecopIdle /\ SimpIdle /\ RecIdle /\ NormIdle

\* outsiders.py:13-72
Classify ==
    /\ pc = "classify"
    /\ cand_df' = MapSeq(cand_file, Classified)
    /\ pc' = "filter"
    /\ UNCHANGED <<cand_file, filtered_df, best_candidates, election_rows,
                   secopVars, simpVars, recVars, normVars>>

\* outsiders.py:84-93
KeepMixed ==
    /\ pc = "filter"
    /\ filtered_df' = FilterMixed(cand_df)
    /\ pc' = "best"
    /\ UNCHANGED <<cand_file, cand_df, best_candidates, election_rows,
                   secopVars, simpVars, recVars, normVars>>

\* outsiders.py:105-108
TakeBest ==
    /\ pc = "best"
    /\ filtered_df' = SortValues(filtered_df, <<>>)
    /\ best_candidates' = Best_candidates(filtered_df')
    /\ pc' = "compare"
    /\ UNCHANGED <<cand_file, cand_df, election_rows,
                   secopVars, simpVars, recVars, normVars>>

\* outsiders.py:111-165
Compare ==
    /\ pc = "compare"
    /\ election_rows' = Comparison(best_candidates)
    /\ pc' = "saved"
    /\ UNCHANGED <<cand_file, cand_df, filtered_df, best_candidates,
                   secopVars, simpVars, recVars, normVars>>

NextOut ==
    \/ Classify
    \/ KeepMixed
    \/ TakeBest
    \/ Compare

SpecOut == InitOut /\ [][NextOut]_vars

\* the classified rows of a municipality group, of one class
ClassOf(cd, cm, o) ==
    {r \in Rows(cand_df) : r.cod_dept = cd /\ r.cod_mun = cm /\ r.outsider = o}

IsMixed(cd, cm) == ClassOf(cd, cm, 1) # {} /\ ClassOf(cd, cm, 0) # {}

\* C7: a municipality group (department code, municipality code) whose candidates
\* are all outsider = 1, or all outsider = 0, contributes no row to the output
\* table, nor to the tables filtered_df and best_candidates it is built from.
C7_MixedGate ==
    /\ \A x \in election_rows : IsMixed(x.cod_dept, x.cod_mun)
    /\ \A x \in best_candidates : IsMixed(x.cod_dept, x.cod_mun)
    /\ \A x \in Rows(filtered_df) : IsMixed(x.cod_dept, x.cod_mun)

\* the run has ended with an output row, and a group of one class only has none
C7_Witness ==
    /\ pc = "saved"
    /\ election_rows # {}
    /\ \E r \in Rows(cand_df) :
        /\ ~IsMixed(r.cod_dept, r.cod_mun)
        /\ \A x \in election_rows : ~SameGroup(x, r)

MaxVotos(S) == CHOOSE v \in {r.votos : r \in S} : \A r \in S : r.votos <= v

\* C8: in every output row, votos_outsider is the largest vote total among the
\* group's outsider candidates, votos_no_outsider the largest among the others,
\* diferencia_votos their difference and margen_victoria that difference over
\* their sum; 5000 against 7000 gives -2000 / 12000.
C8_ElectoralMargin ==
    \A x \in election_rows :
        /\ x.votos_outsider = MaxVotos(ClassOf(x.cod_dept, x.cod_mun, 1))
        /\ x.votos_no_outsider = MaxVotos(ClassOf(x.cod_dept, x.cod_mun, 0))
        /\ x.diferencia_votos = x.votos_outsider - x.votos_no_outsider
        /\ x.margen_victoria[1] * (x.votos_outsider + x.votos_no_outsider)
               = x.diferencia_votos * x.margen_victoria[2]
        /\ x.margen_victoria[2] > 0
        /\ x.votos_outsider = 5000 /\ x.votos_no_outsider = 7000
               => x.margen_victoria = Rat(-2000, 12000)

\* the run has ended; a group with two establishment candidates of 5000 and 7000
\* votes and an outsider of 5000 has the row 5000 against 7000, margin -1/6
C8_Witness ==
    /\ pc = "saved"
    /\ \E x \in election_rows :
        /\ {r.votos : r \in ClassOf(x.cod_dept, x.cod_mun, 0)} = {5000, 7000}
        /\ x.votos_outsider = 5000 /\ x.votos_no_outsider = 7000
        /\ x.diferencia_votos = -2000
        /\ x.margen_victoria = <<-1, 6>>

\* the classified rows of a municipality group in one election year, of one class
ClassOfYear(cd, cm, y, o) == {r \in ClassOf(cd, cm, o) : r.anio = y}

\* the codes of a row determine the names of its department and municipality
NamesByCodes ==
    \A a \in Rows(cand_df), b \in Rows(cand_df) :
        SameGroup(a, b) => a.nom_dept = b.nom_dept /\ a.nom_mun = b.nom_mun

\* C19: at the end of the run on an input whose names are determined by the
\* codes, every municipality and election year in which both an outsider and a
\* non-outsider stood has its own output row, holding the largest vote total
\* of each class within that year.
C19_RowPerMunicipalityYear ==
    pc = "saved" /\ NamesByCodes =>
        \A r \in Rows(cand_df) :
            (ClassOfYear(r.cod_dept, r.cod_mun, r.anio, 1) # {}
                /\ ClassOfYear(r.cod_dept, r.cod_mun, r.anio, 0) # {})
            => \E x \in election_rows :
                /\ SameGroup(x, r) /\ x.anio = r.anio
                /\ x.votos_outsider = MaxVotos(ClassOfYear(r.cod_dept, r.cod_mun, r.anio, 1))
                /\ x.votos_no_outsider = MaxVotos(ClassOfYear(r.cod_dept, r.cod_mun, r.anio, 0))

SingleYear == \A a \in Rows(cand_df), b \in Rows(cand_df) : a.anio = b.anio

\* the candidates of a class of a group that hold its largest vote total
BestOf(cd, cm, o) ==
    {r \in ClassOf(cd, cm, o) : r.votos = MaxVotos(ClassOf(cd, cm, o))}

RosterNames == {official_norms[i] : i \in 1..Len(official_norms)}

\* C26: a candidate is classified 0 exactly when the normalized name of the
\* party is not empty and a normalized roster entry contains it or is
\* contained in it, and 1 otherwise: 1 for a null name, a blank one and one of
\* punctuation only, 0 for the fragment 'Partido' and for a text around a
\* roster entry, 1 for 'MOVIMIENTO X'.
C26_OutsiderClassification ==
    \A i \in 1..Len(cand_df) :
        LET r == cand_df[i]
            n == normalize_name(Spell(r.partido))
        IN  /\ r.outsider \in {0, 1}
            /\ r.outsider = 0 <=>
                    /\ n # <<>>
                    /\ \E off \in RosterNames : Contains(off, n) \/ Contains(n, off)
            /\ r.partido \in {NaN, " ", "---", "MOVIMIENTO X"} => r.outsider = 1
            /\ r.partido \in {"Partido", "PARTIDO LIBERAL COLOMBIANO",
                              "Coalición Partido Liberal Colombiano y Otros"}
                    => r.outsider = 0
            /\ r.partido = "Partido" => n = Chars("partido")

\* the candidates of a null party, of 'Partido' and of a coalition around a
\* roster entry have been classified 1, 0 and 0
C26_Witness ==
    /\ pc # "classify"
    /\ \E i \in 1..Len(cand_df) : cand_df[i].partido = NaN /\ cand_df[i].outsider = 1
    /\ \E i \in 1..Len(cand_df) : cand_df[i].partido = "Partido" /\ cand_df[i].outsider = 0
    /\ \E i \in 1..Len(cand_df) :
        /\ cand_df[i].partido = "Coalición Partido Liberal Colombiano y Otros"
        /\ cand_df[i].outsider = 0


(***************************************************************************)
(* secop.py:146-210: recovery of the municipality of an entity from its    *)
(* name.  Cells of df_mun and entity_info are texts (NoText when null).    *)
(***************************************************************************)
\* astype(str) of a text cell
StrOfText(cell) == IF cell = NoText THEN Chars("nan") ELSE cell

\* secop.py:152-153
Normalized_mun(table) ==
    MapSeq(table, LAMBDA r : [municipio_norm |-> normalize_ciudad(r.municipio),
                              departamento_norm |-> normalize_departamento(r.departamento)])

\* a mutant of mun_to_dept: every name of the file is kept, the repeated ones too
Mun_to_dept_all(table) ==
    LET normed == Normalized_mun(table)
        named == SelectSeq(normed, LAMBDA r : r.municipio_norm # NoText)
    IN  MapSeq(named, LAMBDA r : <<r.municipio_norm, r.departamento_norm>>)

\* secop.py:156-159: the names that occur once, each with its department, in
\* the order of the file (the iteration order of the dict)
Mun_to_dept(table) ==
    LET normed == Normalized_mun(table)
        mun_counts(m) == Cardinality({i \in 1..Len(normed) : normed[i].municipio_norm = m})
        unique == SelectSeq(normed, LAMBDA r : /\ r.municipio_norm # NoText
                                               /\ mun_counts(r.municipio_norm) = 1)
    IN  MapSeq(unique, LAMBDA r : <<r.municipio_norm, r.departamento_norm>>)

\* secop.py:165-169
mask_no_def(r) ==
    \/ Lower(StrOfText(r.ciudad_entidad)) = Chars("no definido")
    \/ r.ciudad_entidad = NoText
    \/ Strip(StrOfText(r.ciudad_entidad)) = <<>>

NotFound == <<>>

\* a mutant of the scan: every match replaces the one before it
RECURSIVE ScanLastMatch(_, _, _, _)
ScanLastMatch(items, ent_name_norm, found, max_len) ==
    IF items = <<>> THEN found
    ELSE LET mun_norm == Head(items)[1]
         IN  IF Len(mun_norm) > 3 /\ Contains(ent_name_norm, mun_norm)
             THEN ScanLastMatch(Tail(items), ent_name_norm, Head(items), Len(mun_norm))
             ELSE ScanLastMatch(Tail(items), ent_name_norm, found, max_len)

\* secop.py:185-190: the loop over mun_to_dept.items()
RECURSIVE Scan(_, _, _, _)
Scan(items, ent_name_norm, found, max_len) ==
    IF items = <<>> THEN found
    ELSE LET mun_norm == Head(items)[1]
         IN  IF /\ Len(mun_norm) > max_len /\ Len(mun_norm) > 3
                /\ Contains(ent_name_norm, mun_norm)
             THEN Scan(Tail(items), ent_name_norm, Head(items), Len(mun_norm))
             ELSE Scan(Tail(items), ent_name_norm, found, max_len)

\* secop.py:174-193
RECURSIVE Updates(_, _, _)
Updates(info, items, idx) ==
    IF idx > Len(info) THEN <<>>
    ELSE LET r == info[idx]
             found == Scan(items, r.entidad_norm, NotFound, 0)
         IN  IF mask_no_def(r) /\ r.entidad_norm # NoText /\ found # NotFound
             THEN <<<<idx, found[1], found[2]>>>> \o Updates(info, items, idx + 1)
             ELSE Updates(info, items, idx + 1)

\* a mutant of the updates: the department of a recovered entity is replaced
\* whatever it was
Recovered_any_department(info, ups) ==
    [idx \in 1..Len(info) |->
        LET r == WithoutField(info[idx], "entidad_norm")
        IN  IF \E k \in 1..Len(ups) : ups[k][1] = idx
            THEN LET u == ups[CHOOSE k \in 1..Len(ups) : ups[k][1] = idx]
                 IN  WithFields(r, [ciudad_entidad |-> u[2], departamento_entidad |-> u[3]])
            ELSE r]

\* secop.py:198-206
Recovered(info, ups) ==
    [idx \in 1..Len(info) |->
        LET r == WithoutField(info[idx], "entidad_norm")
            dept_actual == Strip(Lower(StrOfText(r.departamento_entidad)))
        IN  IF \E k \in 1..Len(ups) : ups[k][1] = idx
            THEN LET u == ups[CHOOSE k \in 1..Len(ups) : ups[k][1] = idx]
                 IN  WithFields(r, [ciudad_entidad |-> u[2],
                                    departamento_entidad |->
                                        IF \/ dept_actual = Chars("no definido")
                                           \/ dept_actual = Chars("nan")
                                           \/ r.departamento_entidad = NoText
                                        THEN u[3] ELSE r.departamento_entidad])
            ELSE r]

(***************************************************************************)
(* The recovery as a state machine: the municipality file holds at most    *)
(* MaxGaz rows, in any order and with repetitions; entity_info has one     *)
(* entity.                                                                 *)
(***************************************************************************)
MaxGaz == 3

GazetteerRows ==
    {[municipio |-> Chars("Bogotá"), departamento |-> Chars("Bogotá")],
     [municipio |-> Chars("Bogota DC"), departamento |-> Chars("Bogotá")],
     [municipio |-> Chars("Cali"), departamento |-> Chars("Valle del Cauca")],
     [municipio |-> Chars("Cali"), departamento |-> Chars("Cauca")],
     [municipio |-> Chars("Buga"), departamento |-> Chars("Valle del Cauca")],
     [municipio |-> Chars("Une"), departamento |-> Chars("Cundinamarca")],
     [municipio |-> Chars("Nariño"), departamento |-> Chars("Nariño")]}

GazetteerFiles == UNION {[1..n -> GazetteerRows] : n \in 0..MaxGaz}

EntityRows ==
    {[nit_entidad |-> 900123456, entidad |-> e, ciudad_entidad |-> c,
      departamento_entidad |-> d,
      alcaldia |-> IF \/ Contains(Lower(e), Chars("alcaldia"))
                      \/ Contains(Lower(e), Chars("alcaldía"))
                      \/ Contains(Lower(e), Chars("municipio"))
                   THEN 1 ELSE 0,
      num_contratos |-> 2] :
        e \in {Chars("Alcaldía de Bogotá DC"), Chars("Hospital de Cali y Buga"),
               Chars("Municipio de Une"), NoText},
        c \in {NoText, Chars(" "), Chars("No Definido"), Chars("Medellín")},
        d \in {NoText, Chars("No Definido"), Chars("Antioquia")}}

InitRecover ==
    /\ pc = "gazetteer"
    /\ df_mun \in GazetteerFiles
    /\ entity_info \in {<<r>> : r \in EntityRows}
    /\ mun_to_dept = <<>> /\ updates = <<>>
    /\ SecopIdle /\ SimpIdle /\ OutIdle /\ NormIdle

\* secop.py:149-162
BuildGazetteer ==
    /\ pc = "gazetteer"
    /\ mun_to_dept' = Mun_to_dept(df_mun)
    /\ entity_info' = MapSeq(entity_info, LAMBDA r :
            WithFields(r, [entidad_norm |-> normalize_txt(r.entidad)]))
    /\ pc' = "scan"
    /\ UNCHANGED <<df_mun, updates, secopVars, simpVars, outVars, normVars>>

\* secop.py:165-195
FindUpdates ==
    /\ pc = "scan"
    /\ updates' = Updates(entity_info, mun_to_dept, 1)
    /\ pc' = "apply"
    /\ UNCHANGED <<df_mun, mun_to_dept, entity_info, secopVars, simpVars, outVars, normVars>>

\* secop.py:198-206
ApplyUpdates ==
    /\ pc = "apply"
    /\ entity_info' = Recovered(entity_info, updates)
    /\ pc' = "recovered"
    /\ UNCHANGED <<df_mun, mun_to_dept, updates, secopVars, simpVars, outVars, normVars>>

NextRecover ==
    \/ BuildGazetteer
    \/ FindUpdates
    \/ ApplyUpdates

SpecRecover == InitRecover /\ [][NextRecover]_vars

(***************************************************************************)
(* secop.py, the whole run: the recovery of lines 146-210 runs between the *)
(* entity information and the HHI.                                         *)
(***************************************************************************)
\* secop.py:128-141
EntityInfo ==
    /\ pc = "entity"
    /\ \E sorted \in Df_main_sorted(df_main) :
           entity_info' = Entity_info(sorted, contract_counts_main)
    /\ pc' = "gazetteer"
    /\ UNCHANGED <<secopVars, df_mun, mun_to_dept, updates, simpVars, outVars, normVars>>

Next ==
    \/ Clean
    \/ MainWindow
    \/ EntityInfo
    \/ BuildGazetteer
    \/ FindUpdates
    \/ ApplyUpdates
    \/ ComputeHHI
    \/ ComputeConc
    \/ MergeMain
    \/ ComputeCtrl
    \/ MergeCtrl

Spec == InitSecop /\ [][Next]_vars

\* C13: the output table has at most one row for an entity identifier, after
\* the outer join, the left joins with the counts and the entity information,
\* and after the left join with the control metrics.
C13_OneRowPerEntity ==
    pc \in {"ctrl", "merge_ctrl", "saved"} =>
        \A a \in final_df : \A b \in final_df : a.nit_entidad = b.nit_entidad => a = b

OriginsOf(nit) == {r.origen_dato : r \in Rows(OfEntity(df_main, nit))}

\* the run has ended with a row for an entity that has main-window records of
\* both origins
C13_Witness ==
    /\ pc = "saved"
    /\ \E x \in final_df : OriginsOf(x.nit_entidad) = {"SECOP I", "SECOP II"}

\* C14: the name, department, municipality and flag of each row of entity_info
\* are those of one main-window record of the entity, and that record is of
\* SECOP II origin whenever the entity has a SECOP II record in the main window.
C14_OneDescriptiveRecord ==
    pc = "gazetteer" =>
        \A k \in 1..Len(entity_info) :
            \E r \in Rows(df_main) :
                /\ r.nit_entidad = entity_info[k].nit_entidad
                /\ r.entidad = entity_info[k].entidad
                /\ r.departamento_entidad = entity_info[k].departamento_entidad
                /\ r.ciudad_entidad = entity_info[k].ciudad_entidad
                /\ r.alcaldia = entity_info[k].alcaldia
                /\ "SECOP II" \in OriginsOf(r.nit_entidad) => r.origen_dato = "SECOP II"

\* C16: every record that survives the cleaning block has an award value > 0,
\* an award date from 2015-01-01 to 2023-12-31 and an entity identifier that is
\* a strictly positive integer.
C16_CleanRecordInvariant ==
    pc # "clean" =>
        \A r \in Rows(df) :
            /\ r.valor_total_adjudicacion > 0
            /\ r.fecha_adjudicacion # NaT
            /\ ~DateLess(r.fecha_adjudicacion, <<2015, 1, 1>>)
            /\ ~DateLess(<<2023, 12, 31>>, r.fecha_adjudicacion)
            /\ r.nit_entidad > 0

GazetteerNames == {mun_to_dept[i][1] : i \in 1..Len(mun_to_dept)}

\* the gazetteer names of length >= 4 contained in a normalized entity name
Qualifying(ent_name_norm) ==
    {m \in GazetteerNames : Len(m) >= 4 /\ Contains(ent_name_norm, m)}

UpdatesOf(idx) == {k \in 1..Len(updates) : updates[k][1] = idx}

\* C6: once the scan is done, an entity whose municipality is null, blank or
\* 'no definido' and whose normalized name contains a gazetteer name of length
\* >= 4 has one recovered municipality: such a name, with no such name strictly
\* longer; with the gazetteer {bogota, bogota dc} and the name 'alcaldia de
\* bogota dc' it is 'bogota dc' in either order of the gazetteer; the recovered
\* name is what ciudad_entidad holds in the end.
C6_LongestMatch ==
    /\ pc = "apply" =>
        \A idx \in 1..Len(entity_info) :
            LET r == entity_info[idx]
                Q == Qualifying(r.entidad_norm)
            IN  IF mask_no_def(r) /\ r.entidad_norm # NoText /\ Q # {}
                THEN /\ Cardinality(UpdatesOf(idx)) = 1
                     /\ \A k \in UpdatesOf(idx) :
                            /\ updates[k][2] \in Q
                            /\ \A m \in Q : Len(m) <= Len(updates[k][2])
                            /\ (/\ GazetteerNames = {Chars("bogota"), Chars("bogota dc")}
                                /\ r.entidad_norm = Chars("alcaldia de bogota dc"))
                                   => updates[k][2] = Chars("bogota dc")
                ELSE UpdatesOf(idx) = {}
    /\ pc = "recovered" =>
        \A k \in 1..Len(updates) :
            entity_info[updates[k][1]].ciudad_entidad = updates[k][2]

\* the gazetteer is {bogota, bogota dc} with the longer name first, and the
\* entity 'Alcaldía de Bogotá DC', whose municipality was not defined, ends
\* with the municipality 'bogota dc'
C6_Witness ==
    /\ pc = "recovered"
    /\ Len(mun_to_dept) = 2
    /\ mun_to_dept[1][1] = Chars("bogota dc") /\ mun_to_dept[2][1] = Chars("bogota")
    /\ entity_info[1].entidad = Chars("Alcaldía de Bogotá DC")
    /\ updates = <<<<1, Chars("bogota dc"), Chars("bogota")>>>>
    /\ entity_info[1].ciudad_entidad = Chars("bogota dc")


\* a municipality cell that is missing, blank or 'no definido' in any case
MunicipalityMissing(c) ==
    c = NoText \/ Strip(c) = <<>> \/ Lower(Strip(c)) = Chars("no definido")

\* a department cell that is missing or 'no definido' in any case
DepartmentMissing(d) == d = NoText \/ Lower(Strip(d)) = Chars("no definido")

LocationFields == {"ciudad_entidad", "departamento_entidad"}

\* what a step of the recovery may change in entity_info
RecoveryFrameStep ==
    pc \in {"gazetteer", "scan", "apply"} =>
        /\ Len(entity_info') = Len(entity_info)
        /\ \A idx \in 1..Len(entity_info) :
            LET a == entity_info[idx]
                b == entity_info'[idx]
            IN  /\ \A f \in DOMAIN a \ (LocationFields \cup {"entidad_norm"}) :
                        f \in DOMAIN b /\ b[f] = a[f]
                /\ b.ciudad_entidad # a.ciudad_entidad =>
                        /\ MunicipalityMissing(a.ciudad_entidad)
                        /\ Qualifying(normalize_txt(a.entidad)) # {}
                /\ b.departamento_entidad # a.departamento_entidad =>
                        /\ b.ciudad_entidad # a.ciudad_entidad
                        /\ DepartmentMissing(a.departamento_entidad)

\* C22: a step of the recovery changes the municipality of an entity only if
\* the municipality was missing, blank or 'no definido' and the lookup table
\* has a name contained in the entity's name; it changes the department only
\* of an entity whose municipality it changes and whose department was missing
\* or 'no definido'; identifier, name, flag and contract count never change.
C22_RecoveryFrame == [][RecoveryFrameStep]_vars

\* the municipality of an entity was recovered while its department, which was
\* filled in, was kept; identifier, flag and contract count are still there
C22_Witness ==
    /\ pc = "recovered"
    /\ updates # <<>>
    /\ entity_info[1].ciudad_entidad = updates[1][2]
    /\ entity_info[1].departamento_entidad = Chars("Antioquia")
    /\ entity_info[1].nit_entidad = 900123456
    /\ entity_info[1].alcaldia = 1 /\ entity_info[1].num_contratos = 2


\* the normalized municipality names that two or more rows of the file bear
AmbiguousNames ==
    LET names == SelectSeq(Normalized_mun(df_mun), LAMBDA r : TRUE)
    IN  {names[i].municipio_norm :
            i \in {i \in 1..Len(names) :
                     \E j \in 1..Len(names) :
                         j # i /\ names[j].municipio_norm = names[i].municipio_norm}}

\* C23: when the recovery has ended, a normalized municipality name borne by
\* two or more rows of the file is not in the lookup table, no update carries
\* it, and no entity has it as its municipality.
C23_AmbiguousNeverRecovered ==
    pc = "recovered" =>
        \A m \in AmbiguousNames :
            /\ m \notin GazetteerNames
            /\ \A k \in 1..Len(updates) : updates[k][2] # m
            /\ \A idx \in 1..Len(entity_info) : entity_info[idx].ciudad_entidad # m

\* the file lists Cali under two departments, and Buga; the hospital of Cali
\* and Buga, whose municipality was missing, is recovered as buga
C23_Witness ==
    /\ pc = "recovered"
    /\ \E i \in 1..Len(df_mun), j \in 1..Len(df_mun) :
        /\ df_mun[i].municipio = Chars("Cali") /\ df_mun[j].municipio = Chars("Cali")
        /\ df_mun[i].departamento # df_mun[j].departamento
    /\ entity_info[1].entidad = Chars("Hospital de Cali y Buga")
    /\ Len(updates) = 1
    /\ entity_info[1].ciudad_entidad = Chars("buga")


HasEnye(s) == \E i \in 1..Len(s) : s[i] \in {"ñ", "Ñ"}

\* C11: normalize_ciudad deletes ñ/Ñ and leaves no letter in its place, while
\* normalize_departamento maps it to n: for a municipality of the file that
\* bears the name of its department and has ñ in it, the two normalized names
\* differ, and 'Nariño' gives 'nario' as municipality, 'narino' as department.
C11_EnyeDeleted ==
    pc \in {"scan", "apply", "recovered"} =>
        \A k \in 1..Len(mun_to_dept) :
            \A r \in Rows(df_mun) :
                (/\ r.municipio = r.departamento
                 /\ HasEnye(r.municipio)
                 /\ normalize_ciudad(r.municipio) = mun_to_dept[k][1])
                    => /\ mun_to_dept[k][1] # mun_to_dept[k][2]
                       /\ r.municipio = Chars("Nariño")
                              => mun_to_dept[k] = <<Chars("nario"), Chars("narino")>>

\* C12: a normalizer given a null or empty text returns the empty text: the
\* normalized name of an entity without a name is empty (normalize_txt), a
\* municipality or department of the file without a name has an empty
\* normalized name, and normalize_text of a null or empty text is empty.
C12_NullGivesEmpty ==
    /\ pc \in {"scan", "apply"} =>
        \A i \in 1..Len(entity_info) :
            entity_info[i].entidad \in {NoText, <<>>} => entity_info[i].entidad_norm = <<>>
    /\ pc \in {"scan", "apply", "recovered"} =>
        \A k \in 1..Len(mun_to_dept) :
            mun_to_dept[k][1] # NoText /\ mun_to_dept[k][2] # NoText
    /\ pc \in {"again", "compared"} =>
        (text \in {NoText, <<>>} => norm_once = <<>>)

(***************************************************************************)
(* final_database.py: normalize_text (lines 23-52).                        *)
(***************************************************************************)
\* final_database.py:42-50
replacements ==
    <<<<Chars("bogota"), Chars("bogota")>>,
      <<Chars("cartagena de indias"), Chars("cartagena")>>,
      <<Chars("barranquilla"), Chars("barranquilla")>>,
      <<Chars("santa marta"), Chars("santa marta")>>,
      <<Chars("san jose de cucuta"), Chars("cucuta")>>,
      <<Chars("san andres"), Chars("san andres")>>,
      <<Chars("providencia"), Chars("providencia")>>>>

\* replacements.get(s, s)
Replacement(s) ==
    IF \E i \in 1..Len(replacements) : replacements[i][1] = s
    THEN replacements[CHOOSE i \in 1..Len(replacements) : replacements[i][1] = s][2]
    ELSE s

\* final_database.py:23-52
normalize_text(t) ==
    IF t = NoText THEN <<>>
    ELSE LET lowered == Strip(Lower(t))
             compact == JoinSplit(StripMarks(lowered))
             no_dc == Strip(Replace(Replace(compact, Chars("d.c."), <<>>), Chars("dc"), <<>>))
             no_dtc == Strip(Replace(no_dc, Chars("distrito turistico y cultural"), <<>>))
             no_dt == Strip(Replace(no_dtc, Chars("distrito turistico"), <<>>))
             no_mun == Strip(Replace(no_dt, Chars("municipio de "), <<>>))
         IN  Replacement(no_mun)

(***************************************************************************)
(* normalize_text applied to a text, and again to its own result.  A text  *)
(* is null or made of at most MaxTextFrags fragments.                      *)
(***************************************************************************)
MaxTextFrags == 3

TextFragments ==
    {"Bogotá ", "D.C. ", "Municipio de ", "Cartagena de Indias", "Distrito Turístico ",
     "y Cultural", "dc", "Colombia", "San José de Cúcuta", " "}

Texts == {NoText} \cup Concats(TextFragments, MaxTextFrags)

InitNorm ==
    /\ pc = "normalize"
    /\ text \in Texts
    /\ norm_once = <<>> /\ norm_twice = <<>>
    /\ SecopIdle /\ SimpIdle /\ RecIdle /\ OutIdle /\ FinIdle

NormalizeOnce ==
    /\ pc = "normalize"
    /\ norm_once' = normalize_text(text)
    /\ pc' = "again"
    /\ UNCHANGED <<text, norm_twice, finVars, secopVars, simpVars, recVars, outVars>>

NormalizeAgain ==
    /\ pc = "again"
    /\ norm_twice' = normalize_text(norm_once)
    /\ pc' = "compared"
    /\ UNCHANGED <<text, norm_once, finVars, secopVars, simpVars, recVars, outVars>>

NextNorm ==
    \/ NormalizeOnce
    \/ NormalizeAgain

SpecNorm == InitNorm /\ [][NextNorm]_vars

\* C10: normalize_text is idempotent: applied to its own result it returns
\* that result, for every input text.
C10_Idempotent == pc = "compared" => norm_twice = norm_once


(***************************************************************************)
(* final_database.py: the merge of the procurement table with the          *)
(* electoral comparison table (lines 56-158).  Cells are texts, NoText     *)
(* when null.                                                              *)
(***************************************************************************)
\* a path with no file, and a path holding a table
Absent == [exists |-> FALSE, rows |-> <<>>]

OnDisk(table) == [exists |-> TRUE, rows |-> table]

\* a mutant of the existence check: every path is taken to exist
AlwaysExists(path) == TRUE

\* os.path.exists
Exists(path) == path.exists

NoDiagnostic == "none"

\* final_database.py:91-92
SecopKeyed(r) ==
    WithFields(r, [dept_norm |-> normalize_text(r.departamento_entidad),
                   mun_norm |-> normalize_text(r.ciudad_entidad)])

\* final_database.py:95-96, 103-104: the name and code columns are not kept
OutsidersKeyed(r) ==
    [anio |-> r.anio, candidato_outsider |-> r.candidato_outsider,
     dept_norm |-> normalize_text(r.nom_dept), mun_norm |-> normalize_text(r.nom_mun)]

\* final_database.py:107-111: the inner join on (dept_norm, mun_norm), in the
\* order of the left table
RECURSIVE Merged(_, _)
Merged(left, right) ==
    IF left = <<>> THEN <<>>
    ELSE LET partners == SelectSeq(right, LAMBDA o : /\ o.dept_norm = Head(left).dept_norm
                                                     /\ o.mun_norm = Head(left).mun_norm)
         IN  MapSeq(partners, LAMBDA o : WithFields(Head(left), o)) \o Merged(Tail(left), right)

\* drop_duplicates: the first occurrence of each row
RECURSIVE DropDuplicates(_)
DropDuplicates(s) ==
    IF s = <<>> THEN <<>>
    ELSE LET front == DropDuplicates(SubSeq(s, 1, Len(s) - 1))
         IN  IF s[Len(s)] \in Rows(front) THEN front ELSE Append(front, s[Len(s)])

\* final_database.py:117-132
Unmatched_cities(m) ==
    LET unmatched == SelectSeq(m, LAMBDA r : r.candidato_outsider = NoText)
        unmatched_clean ==
            SelectSeq(unmatched, LAMBDA r : /\ r.dept_norm # Chars("no definido")
                                            /\ r.mun_norm # Chars("no definido")
                                            /\ r.dept_norm # <<>>
                                            /\ r.mun_norm # <<>>)
    IN  DropDuplicates(MapSeq(unmatched_clean, LAMBDA r :
            [departamento_entidad |-> r.departamento_entidad,
             ciudad_entidad |-> r.ciudad_entidad,
             dept_norm |-> r.dept_norm, mun_norm |-> r.mun_norm]))

\* final_database.py:153
WithoutKeys(m) ==
    MapSeq(m, LAMBDA r : WithoutField(WithoutField(r, "dept_norm"), "mun_norm"))

(***************************************************************************)
(* final_database.py as a state machine.  Each input is absent or holds at *)
(* most MaxFinalRows rows; each output is absent or left by an earlier run.*)
(***************************************************************************)
MaxFinalRows == 2

\* rows of secop_hhi_concentracion: two entities, four places
ProcurementRows ==
    {[nit_entidad |-> n, departamento_entidad |-> g[1], ciudad_entidad |-> g[2]] :
        n \in {900123456, 800100200},
        g \in {<<Chars("bogota"), Chars("bogota dc")>>,
               <<Chars("valle del cauca"), Chars("cali")>>,
               <<Chars("no definido"), Chars("no definido")>>,
               <<NoText, NoText>>}}

\* rows of outsiders.csv: two municipalities, the outsider's name may be null;
\* and a municipality of another code whose name differs from the first by the
\* suffix dc
ComparisonRows ==
    {[cod_mun |-> 1, nom_dept |-> g[1], nom_mun |-> g[2], anio |-> 2019,
      candidato_outsider |-> c] :
        g \in {<<Chars("bogota"), Chars("bogota")>>,
               <<Chars("valle del cauca"), Chars("cali")>>},
        c \in {Chars("A"), NoText}}
    \cup {[cod_mun |-> 2, nom_dept |-> Chars("bogota"), nom_mun |-> Chars("bogota dc"),
           anio |-> 2019, candidato_outsider |-> Chars("B")]}

\* a file left by an earlier run
EarlierFile == OnDisk(<<[nit_entidad |-> 1]>>)

InitFinal ==
    /\ pc = "load"
    /\ secop_path \in {Absent} \cup {OnDisk(f) : f \in TablesOver(ProcurementRows, MaxFinalRows)}
    /\ outsiders_path \in {Absent} \cup {OnDisk(f) : f \in TablesOver(ComparisonRows, MaxFinalRows)}
    /\ final_file \in {Absent, EarlierFile}
    /\ unmatched_file \in {Absent, EarlierFile}
    /\ df_secop = <<>> /\ df_outsiders = <<>> /\ merged = <<>> /\ unmatched_cities = <<>>
    /\ diagnostic = NoDiagnostic
    /\ SecopIdle /\ SimpIdle /\ RecIdle /\ OutIdle /\ TextIdle

finOthers == <<text, norm_once, norm_twice, secopVars, simpVars, recVars, outVars>>

\* final_database.py:59-68: sys.exit(1) when an input is missing; read_csv of a
\* missing file raises FileNotFoundError
Load ==
    /\ pc = "load"
    /\ IF ~Exists(outsiders_path)
       THEN /\ diagnostic' = "ERROR: No se encuentra outsiders.csv"
            /\ pc' = "aborted"
            /\ UNCHANGED <<df_secop, df_outsiders>>
       ELSE IF ~Exists(secop_path)
       THEN /\ diagnostic' = "ERROR: No se encuentra secop_hhi_concentracion.csv"
            /\ pc' = "aborted"
            /\ UNCHANGED <<df_secop, df_outsiders>>
       ELSE IF ~secop_path.exists \/ ~outsiders_path.exists
       THEN /\ diagnostic' = "FileNotFoundError"
            /\ pc' = "crashed"
            /\ UNCHANGED <<df_secop, df_outsiders>>
       ELSE /\ df_secop' = secop_path.rows
            /\ df_outsiders' = outsiders_path.rows
            /\ pc' = "merge"
            /\ UNCHANGED diagnostic
    /\ UNCHANGED <<secop_path, outsiders_path, merged, unmatched_cities, final_file,
                   unmatched_file, finOthers>>

\* final_database.py:91-111
Merge ==
    /\ pc = "merge"
    /\ merged' = Merged(MapSeq(df_secop, SecopKeyed), MapSeq(df_outsiders, OutsidersKeyed))
    /\ pc' = "report"
    /\ UNCHANGED <<secop_path, outsiders_path, df_secop, df_outsiders, unmatched_cities,
                   final_file, unmatched_file, diagnostic, finOthers>>

\* final_database.py:117-148: the summary divides by len(merged)
Report ==
    /\ pc = "report"
    /\ IF Len(merged) = 0
       THEN /\ diagnostic' = "ZeroDivisionError"
            /\ pc' = "crashed"
            /\ UNCHANGED <<unmatched_cities, unmatched_file>>
       ELSE /\ unmatched_cities' = Unmatched_cities(merged)
            /\ unmatched_file' = IF Len(unmatched_cities') > 0 THEN OnDisk(unmatched_cities')
                                 ELSE unmatched_file
            /\ pc' = "save"
            /\ UNCHANGED diagnostic
    /\ UNCHANGED <<secop_path, outsiders_path, df_secop, df_outsiders, merged, final_file,
                   finOthers>>

\* final_database.py:153-157
Save ==
    /\ pc = "save"
    /\ merged' = WithoutKeys(merged)
    /\ final_file' = OnDisk(merged')
    /\ pc' = "saved"
    /\ UNCHANGED <<secop_path, outsiders_path, df_secop, df_outsiders, unmatched_cities,
                   unmatched_file, diagnostic, finOthers>>

NextFinal ==
    \/ Load
    \/ Merge
    \/ Report
    \/ Save

SpecFinal == InitFinal /\ [][NextFinal]_vars


\* the procurement rows whose normalized key no electoral row has, and whose
\* normalized department and municipality are neither 'no definido' nor empty
WithoutMatch ==
    {i \in 1..Len(df_secop) :
        LET s == SecopKeyed(df_secop[i])
        IN  /\ \A k \in 1..Len(df_outsiders) :
                   \/ OutsidersKeyed(df_outsiders[k]).dept_norm # s.dept_norm
                   \/ OutsidersKeyed(df_outsiders[k]).mun_norm # s.mun_norm
            /\ s.dept_norm \notin {Chars("no definido"), <<>>}
            /\ s.mun_norm \notin {Chars("no definido"), <<>>}}

\* C17: when the run has ended, every procurement row without an electoral
\* match (and with a defined department and municipality) has its pair
\* (department, municipality) in the unmatched-geography report, exactly once.
C17_UnmatchedReported ==
    pc = "saved" =>
        \A i \in WithoutMatch :
            /\ unmatched_file = OnDisk(unmatched_cities)
            /\ Cardinality({k \in 1..Len(unmatched_cities) :
                   /\ unmatched_cities[k].departamento_entidad
                          = df_secop[i].departamento_entidad
                   /\ unmatched_cities[k].ciudad_entidad = df_secop[i].ciudad_entidad}) = 1

InputMissing == ~secop_path.exists \/ ~outsiders_path.exists

\* C18: when the procurement table or the electoral table is absent, the run
\* aborts with the diagnostic that names the missing file, and no step of it
\* changes the final table or the unmatched-geography report on disk.
C18_MissingInputAborts ==
    /\ [](InputMissing /\ pc # "load"
             => /\ pc = "aborted"
                /\ diagnostic \in {"ERROR: No se encuentra outsiders.csv",
                                   "ERROR: No se encuentra secop_hhi_concentracion.csv"}
                /\ merged = <<>>)
    /\ [][InputMissing => final_file' = final_file /\ unmatched_file' = unmatched_file]_vars

\* the run has aborted for want of the procurement table, and the outputs of
\* an earlier run are still on disk
C18_Witness ==
    /\ pc = "aborted"
    /\ ~secop_path.exists /\ outsiders_path.exists
    /\ final_file = EarlierFile /\ unmatched_file = EarlierFile


\* the lowercased text names a municipal government
NamesMunicipality(name) ==
    LET e == Lower(name)
    IN  \/ Contains(e, Chars("alcaldia")) \/ Contains(e, Chars("alcaldía"))
        \/ Contains(e, Chars("municipio"))

\* C21: in every row of the output table that has a name, the flag alcaldia is
\* 1 exactly when the name of that same row, lowercased, contains alcaldia,
\* alcaldía or municipio.
C21_FlagMatchesName ==
    pc \in {"ctrl", "merge_ctrl", "saved"} =>
        \A x \in final_df :
            x.entidad # NoText => (x.alcaldia = 1 <=> NamesMunicipality(x.entidad))

\* the eligible records of an entity whose award is in a span of years
AwardedInYears(nit, from, to) ==
    SelectSeq(df, LAMBDA r : /\ r.nit_entidad = nit
                             /\ r.fecha_adjudicacion[1] >= from
                             /\ r.fecha_adjudicacion[1] <= to)

C25_ParallelLogic ==
    \A e \in Entities(df) :
        LET T == OfEntity(df, e)
            main_hhi == Res_hhi(M_hhi(G_hhi(T)))
            main_conc == Res_conc(T)
            aggs == Aggs(T)
            ctrl == CtrlResult(aggs, Hhi_p(G_prov(T, aggs)))
        IN  \A c \in ctrl :
                /\ \E h \in main_hhi :
                    h.HHI = c.HHI_ctrl /\ h.HHI_10000 = c.HHI_10000_ctrl
                /\ \E k \in main_conc :
                    /\ k.pct_simplif_count = c.pct_simplif_count_ctrl
                    /\ k.pct_simplif_value = c.pct_simplif_value_ctrl

\* the distinct processes of a table
ProcessesOf(table) == {r.id_del_proceso : r \in Rows(table)}

\* the distinct processes of a table that have a simplified record
SimplifiedProcessesOf(table) == {r.id_del_proceso : r \in {q \in Rows(table) : q.simplificada}}

\* the sum of the values of the simplified records of a table
SimplifiedValueOf(table) == SumValor(SelectSeq(table, LAMBDA r : r.simplificada))

InUnitInterval(x) == RatLeq(RatOfInt(0), x) /\ RatLeq(x, RatOfInt(1))

\* the two shares of a window, given the eligible records of the entity in it
SharesAre(count, value, rows) ==
    /\ count = Rat(Cardinality(SimplifiedProcessesOf(rows)), Cardinality(ProcessesOf(rows)))
    /\ value = Rat(SimplifiedValueOf(rows), SumValor(rows))
    /\ InUnitInterval(count) /\ InUnitInterval(value)

\* C27: at the end of the run, for every entity of the output table the count
\* share of the main window is the number of distinct processes with a
\* simplified record over the number of distinct processes, the value share the
\* value of the simplified records over the whole value, both within [0, 1];
\* the same holds of the control window for every entity with records in it.
C27_SimplifiedShares ==
    pc = "saved" =>
        \A x \in final_df :
            /\ SharesAre(x.pct_simplif_count, x.pct_simplif_value, MainRowsOf(x.nit_entidad))
            /\ CtrlRowsOf(x.nit_entidad) # <<>> =>
                  SharesAre(x.pct_simplif_count_ctrl, x.pct_simplif_value_ctrl,
                            CtrlRowsOf(x.nit_entidad))

\* the run has ended; the entity has a simplified process with two records and
\* another process, and its count share is 1/2
C27_Witness ==
    /\ pc = "saved"
    /\ \E x \in final_df :
        LET rows == MainRowsOf(x.nit_entidad)
        IN  /\ Len(SelectSeq(rows, LAMBDA r : r.simplificada)) = 2
            /\ Cardinality(SimplifiedProcessesOf(rows)) = 1
            /\ Cardinality(ProcessesOf(rows)) = 2
            /\ x.pct_simplif_count = <<1, 2>>

\* C28: when a run of the merge stage has ended, the merged table on disk is
\* the one of this run, and the unmatched report on disk is the one of this
\* run: the unmatched pairs of this run if there are any, and otherwise not a
\* report that an earlier run left.
C28_OutputsOfLatestRun ==
    pc = "saved" =>
        /\ final_file = OnDisk(merged)
        /\ IF unmatched_cities # <<>>
           THEN unmatched_file = OnDisk(unmatched_cities)
           ELSE unmatched_file \in {Absent, OnDisk(<<>>)}

\* a row of the merged table restricted to the columns of a procurement row
ProcurementPart(m, s) == [f \in DOMAIN s |-> m[f]]

\* the electoral table has one row for each municipality code, as outsiders.py
\* writes it
OneRowPerCode ==
    \A a \in 1..Len(df_outsiders), b \in 1..Len(df_outsiders) :
        a # b => \/ df_outsiders[a].nom_dept # df_outsiders[b].nom_dept
                 \/ df_outsiders[a].cod_mun # df_outsiders[b].cod_mun

\* C29: once the tables are joined, with an electoral table of one row for each
\* municipality code, the merged table holds each procurement row at most as
\* many times as the procurement table holds it: the join does not multiply a
\* procurement row.
C29_NoDuplicatedProcurementRow ==
    pc \in {"report", "save", "saved"} /\ OneRowPerCode =>
        \A i \in 1..Len(df_secop) :
            Cardinality({k \in 1..Len(merged) :
                            ProcurementPart(merged[k], df_secop[i]) = df_secop[i]})
                <= Cardinality({j \in 1..Len(df_secop) : df_secop[j] = df_secop[i]})

\* the records of a table without a supplier
WithoutSupplier(table) == SelectSeq(table, LAMBDA r : r.nit_prov = NoText)

\* C30: at the end of the run, the main-window records of an entity that have
\* no supplier (a null tax ID, or one without digits) are one supplier whose
\* v_i is the sum of their values; an entity whose records all lack the
\* supplier has HHI = 1 and 10000 on the other scale; and every entity of the
\* output with a positive total has an HHI.
C30_NullSupplierPooled ==
    pc = "saved" =>
        \A x \in final_df :
            LET rows == MainRowsOf(x.nit_entidad)
                pooled == {m \in m_hhi : m.nit_entidad = x.nit_entidad /\ m.nit_prov = NoText}
            IN  /\ WithoutSupplier(rows) # <<>> =>
                    /\ Cardinality(pooled) = 1
                    /\ \A m \in pooled : m.v_i = SumValor(WithoutSupplier(rows))
                /\ WithoutSupplier(rows) = rows =>
                    x.HHI = <<1, 1>> /\ x.HHI_10000 = <<10000, 1>>
                /\ SumValor(rows) > 0 => ~IsNaN(x.HHI)

\* the run has ended; the two records of an entity, of two processes, both lack
\* the supplier, one of them because its tax ID has no digit, and its HHI is 1
C30_Witness ==
    /\ pc = "saved"
    /\ \E i \in 1..Len(files) : files[i].nit_del_proveedor_adjudicado = "SIN NIT"
    /\ \E x \in final_df :
        LET rows == MainRowsOf(x.nit_entidad)
        IN  /\ Len(rows) >= 2
            /\ WithoutSupplier(rows) = rows
            /\ x.HHI = <<1, 1>>

(***************************************************************************)
(* process_secop1.py and process_secop2.py: the filter of each source, and *)
(* the gate of secop.py (lines 91-97) on the rows each source kept.        *)
(***************************************************************************)
IsLetter(c) == \E i \in 1..Len(LowerCase) : c = LowerCase[i] \/ c = UpperCase[i]

\* str.title(): a letter after a letter is lowered, any other letter is raised
Title(s) ==
    [i \in 1..Len(s) |->
        IF i > 1 /\ IsLetter(s[i - 1]) THEN MapChar(s[i], UpperCase, LowerCase)
        ELSE MapChar(s[i], LowerCase, UpperCase)]

\* process_secop1.py:51
valid_states_secop1 ==
    {Chars("Celebrado"), Chars("Liquidado"), Chars("Terminado"), Chars("Adjudicado"),
     Chars("Ejecución"), Chars("Tramitado")}

\* process_secop1.py:58-84: state, value and signature date
KeptBySecop1(r) ==
    /\ Title(AsStr(r.estado_del_proceso)) \in valid_states_secop1
    /\ r.cuantia_contrato > 0
    /\ r.fecha_de_firma_del_contrato # NaT

\* process_secop1.py:87-88, 105-120: the added columns and the renamed ones
Secop1Row(r) ==
    [origen_dato |-> "SECOP I",
     adjudicado |-> "Si",
     valor_total_adjudicacion |-> r.cuantia_contrato,
     fecha_adjudicacion |-> r.fecha_de_firma_del_contrato]

\* process_secop2.py:43
valid_states_secop2 == {"Adjudicado", "Celebrado", "Seleccionado"}

\* process_secop2.py:34-54: the awarded flag when the column exists, else the
\* state; then value and date
KeptBySecop2(r, flagged) ==
    /\ IF flagged THEN Lower(AsStr(r.adjudicado)) \in AwardedWords
       ELSE r.estado_del_procedimiento \in valid_states_secop2
    /\ r.valor_total_adjudicacion > 0
    /\ r.fecha_adjudicacion # NaT

\* process_secop2.py:56, 80-84: a column of COLS_KEEP the file lacks is added
\* with None, which the intermediate csv gives back as null
Secop2Row(r, flagged) ==
    [origen_dato |-> "SECOP II",
     adjudicado |-> IF flagged THEN r.adjudicado ELSE NaN,
     valor_total_adjudicacion |-> r.valor_total_adjudicacion,
     fecha_adjudicacion |-> r.fecha_adjudicacion]

(***************************************************************************)
(* One source file through its filter and through the gate.  The raw file  *)
(* holds at most MaxRaw rows.                                              *)
(***************************************************************************)
MaxRaw == 2

RawSecop1Rows ==
    [estado_del_proceso : {"CELEBRADO", "Liquidado", "Convocado"},
     cuantia_contrato : {0, 100},
     fecha_de_firma_del_contrato : {MainDate, NaT}]

RawSecop2Rows ==
    [adjudicado : {"Si", "No", NaN},
     estado_del_procedimiento : {"Adjudicado", "Borrador"},
     valor_total_adjudicacion : {0, 100},
     fecha_adjudicacion : {MainDate, NaT}]

\* a SECOP II file without the column adjudicado
RawSecop2RowsNoFlag ==
    [estado_del_procedimiento : {"Adjudicado", "Seleccionado", "Borrador"},
     valor_total_adjudicacion : {0, 100},
     fecha_adjudicacion : {MainDate, NaT}]

InitSources ==
    /\ \/ /\ pc = "process_secop1"
          /\ raw \in TablesOver(RawSecop1Rows, MaxRaw)
          /\ has_adjudicado = FALSE
       \/ /\ pc = "process_secop2"
          /\ raw \in TablesOver(RawSecop2Rows, MaxRaw)
          /\ has_adjudicado = TRUE
       \/ /\ pc = "process_secop2"
          /\ raw \in TablesOver(RawSecop2RowsNoFlag, MaxRaw)
          /\ has_adjudicado = FALSE
    /\ intermediate = <<>> /\ gated = <<>>
    /\ modalidad = Idle /\ simplificada = Idle
    /\ SecopIdle /\ RecIdle /\ OutIdle /\ NormIdle

srcOthers == <<modalidad, simplificada, secopVars, recVars, outVars, normVars>>

\* process_secop1.py:90-130
ProcessSecop1 ==
    /\ pc = "process_secop1"
    /\ intermediate' = MapSeq(SelectSeq(raw, KeptBySecop1), Secop1Row)
    /\ pc' = "gate"
    /\ UNCHANGED <<raw, has_adjudicado, gated, srcOthers>>

\* process_secop2.py:59-95
ProcessSecop2 ==
    /\ pc = "process_secop2"
    /\ intermediate' = MapSeq(SelectSeq(raw, LAMBDA r : KeptBySecop2(r, has_adjudicado)),
                              LAMBDA r : Secop2Row(r, has_adjudicado))
    /\ pc' = "gate"
    /\ UNCHANGED <<raw, has_adjudicado, gated, srcOthers>>

\* secop.py:91-97
Gate ==
    /\ pc = "gate"
    /\ gated' = SelectSeq(intermediate, is_awarded)
    /\ pc' = "gated"
    /\ UNCHANGED <<raw, has_adjudicado, intermediate, srcOthers>>

NextSources ==
    \/ ProcessSecop1
    \/ ProcessSecop2
    \/ Gate

SpecSources == InitSources /\ [][NextSources]_vars

\* C15: the gate of the aggregation stage removes no record that the filter
\* of its source kept, for SECOP I, for SECOP II with the awarded flag, and
\* for SECOP II filtered on the state because the flag column is absent.
C15_GateKeepsAll == pc = "gated" => gated = intermediate


=============================================================================
